---- MODULE Spec2Model ----
(***************************************************************************)
(* innbox: inbound e-mail ingestion, conversation threading and the        *)
(* in-memory Event Bus that fans notifications out to SSE connections.     *)
(*                                                                         *)
(* Part A  Event Bus        app/lib/eventBus.server.ts, routes/api.sse.inbox *)
(* Part B  Threading        app/lib/threading.server.ts                     *)
(* Part C  Ingestion        routes/api.webhook.email                        *)
(***************************************************************************)
EXTENDS Integers, Sequences, FiniteSets, TLC

(***************************************************************************)
(* Bounds of the model.                                                    *)
(***************************************************************************)
MaxConns == 2
MaxEvents == 2
MaxBeats == 1

Conns == 1..MaxConns
Inboxes == {"inboxA", "inboxB"}
NoSet == 0

(***************************************************************************)
(* Part A.  Event Bus state.                                               *)
(*                                                                         *)
(* subscribers is the Map<inboxId, Set<SSEConnection>>.  A JavaScript Set  *)
(* is an object with identity: the unsubscribe closure keeps a reference   *)
(* to the Set it was added to, even after the Map has dropped that Set.    *)
(* Set objects are therefore kept in a heap (members), named by the        *)
(* connection whose subscribe() created them; subscribers maps an inbox to *)
(* the name of its Set, or NoSet when the Map has no entry.  A Set keeps   *)
(* insertion order, so its content is a duplicate-free sequence.           *)
(***************************************************************************)
VARIABLES
    subscribers,     \* inboxId -> name of the Set in the Map, or NoSet
    members,         \* Set name -> sequence of connections (insertion order)
    heartbeatTimer,  \* TRUE iff heartbeatTimer is non-null (interval armed)
    ctrl,            \* connection -> "idle" | "open" | "closed" (controller)
    subInbox,        \* connection -> inboxId captured by its unsubscribe closure
    subSet,          \* connection -> Set captured by its unsubscribe closure
    hooks,           \* connection -> which of the loader's callbacks have run
    received,        \* connection -> frames enqueued on its controller
    busThrew,        \* TRUE iff the last Event Bus call let an exception escape
    nextEvent,       \* number of the next Notification Event
    beats            \* number of heartbeat sweeps so far

\* The arguments and the results of calls of the pure threading utilities
\* (Part H).
VARIABLES givenSubject, normalizations, givenHeaders, extracted

fnVars == <<givenSubject, normalizations, givenHeaders, extracted>>

busState == <<subscribers, members, heartbeatTimer, received>>
busVars == <<subscribers, members, heartbeatTimer, ctrl, subInbox, subSet,
             hooks, received, busThrew, nextEvent, beats>>

\* The store and the clock (Part C), declared here because every action says
\* what it leaves alone.
VARIABLES
    threads,      \* the threads table
    emails,       \* the emails table (received)
    sentEmails,   \* the sent_emails table
    now,          \* the server's clock, in tenths of a second
    ticks,        \* how often the clock has advanced
    req,          \* request slot -> state of the request it serves
    started       \* number of requests accepted so far

storeVars == <<threads, emails, sentEmails, now, ticks, req, started>>

\* The browser's streaming client (Part G), one mounted useInboxSSE hook.
VARIABLES
    eventSourceRef,     \* eventSourceRef.current: a channel, or NoChannel
    chan,               \* channel -> "none" | "connecting" | "open" | "closed"
    retryCountRef,      \* retryCountRef.current
    retryTimeoutRef,    \* retryTimeoutRef.current: delay of the timer it holds, or NoTimer
    pendingTimeouts,    \* delays of the setTimeout timers that are armed
    fallbackIntervalRef,\* TRUE iff the polling interval is armed
    connectionState,    \* the hook's connectionState
    hidden,             \* document.hidden
    mounted,            \* TRUE iff the hook's effects are mounted
    revalidatorState,   \* revalidator.state: "idle" | "loading"
    ackedAfter          \* retry count the latest 'connected' listener found, or -1

clientVars == <<eventSourceRef, chan, retryCountRef, retryTimeoutRef, pendingTimeouts,
                fallbackIntervalRef, connectionState, hidden, mounted,
                revalidatorState, ackedAfter>>

ConnectedFrame == [kind |-> "connected", ev |-> 0]
HeartbeatFrame == [kind |-> "heartbeat", ev |-> 0]
EventFrame(e) == [kind |-> "inbox-event", ev |-> e]

\* A Notification Event: its number, and the mailbox whose thread it is about
\* (the caller builds the event for the mailbox it publishes to).
Event(n, inboxId) == [n |-> n, inbox |-> inboxId]
Events == [n : 1..MaxEvents, inbox : Inboxes]

InitBus ==
    /\ subscribers = [i \in Inboxes |-> NoSet]
    /\ members = [s \in Conns |-> <<>>]
    /\ heartbeatTimer = FALSE
    /\ ctrl = [c \in Conns |-> "idle"]
    /\ subInbox = [c \in Conns |-> "none"]
    /\ subSet = [c \in Conns |-> NoSet]
    /\ hooks = [c \in Conns |-> {}]
    /\ received = [c \in Conns |-> <<>>]
    /\ busThrew = FALSE
    /\ nextEvent = 1
    /\ beats = 0

(***************************************************************************)
(* Helpers on insertion-ordered Sets.                                      *)
(***************************************************************************)
Range(s) == {s[k] : k \in 1..Len(s)}

SetAdd(s, x) == IF x \in Range(s) THEN s ELSE Append(s, x)

RECURSIVE SetDelete(_, _)
SetDelete(s, x) ==
    IF s = <<>> THEN <<>>
    ELSE IF Head(s) = x THEN SetDelete(Tail(s), x)
    ELSE <<Head(s)>> \o SetDelete(Tail(s), x)

RECURSIVE SetDeleteAll(_, _)
SetDeleteAll(s, xs) ==
    IF xs = <<>> THEN s ELSE SetDeleteAll(SetDelete(s, Head(xs)), Tail(xs))

\* The connections of the Set the Map holds for an inbox (empty if no entry).
SubsOf(subs, mem, i) == IF subs[i] = NoSet THEN <<>> ELSE mem[subs[i]]

\* Every connection reachable through the Map.
Registered(subs, mem) == UNION {Range(SubsOf(subs, mem, i)) : i \in Inboxes}

\* The inboxes in the order sendHeartbeat walks the Map.
InboxOrder == <<"inboxA", "inboxB">>

RECURSIVE AllSubs(_)
AllSubs(order) ==
    IF order = <<>> THEN <<>>
    ELSE SubsOf(subscribers, members, Head(order)) \o AllSubs(Tail(order))

\* subscribers.size
MapSize(subs) == Cardinality({i \in Inboxes : subs[i] # NoSet})

(***************************************************************************)
(* The write loop shared by notifyInbox and sendHeartbeat:                 *)
(*   for (const connection of inboxSubs) {                                 *)
(*     try { connection.controller.enqueue(message) }                      *)
(*     catch { deadConnections.push(connection) } }                        *)
(* enqueue throws when the controller is no longer open.                   *)
(***************************************************************************)
RECURSIVE BroadcastAbortOnThrow(_, _, _, _)
BroadcastAbortOnThrow(conns, frame, rcv, dead) ==
    IF conns = <<>> THEN [received |-> rcv, dead |-> dead, threw |-> FALSE]
    ELSE IF ctrl[Head(conns)] = "open"
         THEN BroadcastAbortOnThrow(Tail(conns), frame,
                  [rcv EXCEPT ![Head(conns)] = Append(@, frame)], dead)
         ELSE [received |-> rcv, dead |-> Append(dead, Head(conns)), threw |-> TRUE]

RECURSIVE Broadcast(_, _, _, _)
Broadcast(conns, frame, rcv, dead) ==
    IF conns = <<>> THEN [received |-> rcv, dead |-> dead, threw |-> FALSE]
    ELSE IF ctrl[Head(conns)] = "open"
         THEN Broadcast(Tail(conns), frame,
                  [rcv EXCEPT ![Head(conns)] = Append(@, frame)], dead)
         ELSE Broadcast(Tail(conns), frame, rcv, Append(dead, Head(conns)))

(***************************************************************************)
(* subscribe(inboxId, userId, controller): get or create the inbox's Set,  *)
(* add the connection, start the heartbeat when no timer is armed.  The    *)
(* result is the new Map, heap and timer.                                  *)
(***************************************************************************)
startHeartbeat == TRUE

stopHeartbeat(timer) == IF timer THEN FALSE ELSE timer

subscribe(inboxId, c) ==
    LET inboxSubs == IF subscribers[inboxId] = NoSet THEN c ELSE subscribers[inboxId]
    IN  [subscribers |-> [subscribers EXCEPT ![inboxId] = inboxSubs],
         members |-> [members EXCEPT ![inboxSubs] = SetAdd(@, c)],
         heartbeatTimer |-> IF ~heartbeatTimer THEN startHeartbeat ELSE heartbeatTimer,
         inboxSubs |-> inboxSubs]

(***************************************************************************)
(* The closure returned by subscribe.  It deletes the connection from the  *)
(* Set it captured, deletes the inbox's Map entry when that captured Set   *)
(* is empty, and stops the heartbeat when the Map is empty.                *)
(***************************************************************************)
unsubscribeKeepTimer(c) ==
    LET inboxSubs == subSet[c]
        mem == [members EXCEPT ![inboxSubs] = SetDelete(@, c)]
        subs == IF Len(mem[inboxSubs]) = 0
                THEN [subscribers EXCEPT ![subInbox[c]] = NoSet]
                ELSE subscribers
    IN  [subscribers |-> subs, members |-> mem, heartbeatTimer |-> heartbeatTimer]

unsubscribe(c) ==
    LET inboxSubs == subSet[c]
        mem == [members EXCEPT ![inboxSubs] = SetDelete(@, c)]
        subs == IF Len(mem[inboxSubs]) = 0
                THEN [subscribers EXCEPT ![subInbox[c]] = NoSet]
                ELSE subscribers
    IN  [subscribers |-> subs,
         members |-> mem,
         heartbeatTimer |-> IF MapSize(subs) = 0 /\ heartbeatTimer
                            THEN stopHeartbeat(heartbeatTimer)
                            ELSE heartbeatTimer]

(***************************************************************************)
(* notifyInbox(inboxId, event).  Returns at once when the Map has no entry *)
(* or an empty Set; otherwise writes the frame to every connection of the  *)
(* Set, deletes the connections whose write threw, and deletes the Map     *)
(* entry when the Set ends up empty.  It never touches the timer.          *)
(***************************************************************************)
notifyInboxNoGuard(inboxId, event) ==
    LET inboxSubs == subscribers[inboxId]
        r == Broadcast(SubsOf(subscribers, members, inboxId), EventFrame(event), received, <<>>)
    IN  IF inboxSubs = NoSet
        THEN [subscribers |-> subscribers, members |-> members,
              received |-> received, threw |-> TRUE]
        ELSE [subscribers |-> subscribers, members |-> members,
              received |-> r.received, threw |-> r.threw]

notifyInboxAllInboxes(inboxId, event) ==
    LET r == Broadcast(AllSubs(InboxOrder), EventFrame(event), received, <<>>)
    IN  [subscribers |-> subscribers, members |-> members,
         received |-> r.received, threw |-> r.threw]

notifyInbox(inboxId, event) ==
    LET inboxSubs == subscribers[inboxId]
    IN  IF inboxSubs = NoSet \/ Len(members[inboxSubs]) = 0
        THEN [subscribers |-> subscribers, members |-> members,
              received |-> received, threw |-> FALSE]
        ELSE LET r == Broadcast(members[inboxSubs], EventFrame(event), received, <<>>)
                 left == SetDeleteAll(members[inboxSubs], r.dead)
             IN  [subscribers |-> IF Len(left) = 0
                                  THEN [subscribers EXCEPT ![inboxId] = NoSet]
                                  ELSE subscribers,
                  members |-> [members EXCEPT ![inboxSubs] = left],
                  received |-> r.received,
                  threw |-> r.threw]

(***************************************************************************)
(* sendHeartbeat(): the interval callback.  Writes a heartbeat frame to    *)
(* every connection of every Set in the Map, then deletes the connections  *)
(* whose write threw from the Set the Map holds for their inbox and        *)
(* deletes that Map entry when the Set is empty.  The order in which the   *)
(* Map is walked cannot be observed: each connection has its own frame log.*)
(***************************************************************************)
sendHeartbeat ==
    LET r == Broadcast(AllSubs(InboxOrder), HeartbeatFrame, received, <<>>)
        hasDead(i) == Range(SubsOf(subscribers, members, i)) \cap Range(r.dead) # {}
        mem == [s \in Conns |->
                  IF \E i \in Inboxes : subscribers[i] = s /\ hasDead(i)
                  THEN SetDeleteAll(members[s], r.dead)
                  ELSE members[s]]
    IN  [subscribers |-> [i \in Inboxes |->
                            IF hasDead(i) /\ Len(mem[subscribers[i]]) = 0
                            THEN NoSet ELSE subscribers[i]],
         members |-> mem,
         received |-> r.received,
         threw |-> r.threw]

(***************************************************************************)
(* Actions of the Event Bus and of the SSE loader that drives it.          *)
(***************************************************************************)
\* A start(controller) that subscribes without the "connected" frame.
ConnectWithoutWelcome(c, inboxId) ==
    /\ ctrl[c] = "idle"
    /\ \A d \in Conns : d < c => ctrl[d] # "idle"
    /\ LET r == subscribe(inboxId, c)
       IN  /\ subscribers' = r.subscribers
           /\ members' = r.members
           /\ heartbeatTimer' = r.heartbeatTimer
           /\ subSet' = [subSet EXCEPT ![c] = r.inboxSubs]
    /\ subInbox' = [subInbox EXCEPT ![c] = inboxId]
    /\ ctrl' = [ctrl EXCEPT ![c] = "open"]
    /\ received' = received
    /\ busThrew' = FALSE
    /\ UNCHANGED <<hooks, nextEvent, beats>>
    /\ UNCHANGED storeVars
    /\ UNCHANGED clientVars
    /\ UNCHANGED fnVars

\* loader: ReadableStream.start(controller) -- enqueue the "connected"
\* frame, then subscribe.  Connections are taken in order of creation.
Connect(c, inboxId) ==
    /\ ctrl[c] = "idle"
    /\ \A d \in Conns : d < c => ctrl[d] # "idle"
    /\ LET r == subscribe(inboxId, c)
       IN  /\ subscribers' = r.subscribers
           /\ members' = r.members
           /\ heartbeatTimer' = r.heartbeatTimer
           /\ subSet' = [subSet EXCEPT ![c] = r.inboxSubs]
    /\ subInbox' = [subInbox EXCEPT ![c] = inboxId]
    /\ ctrl' = [ctrl EXCEPT ![c] = "open"]
    /\ received' = [received EXCEPT ![c] = <<ConnectedFrame>>]
    /\ busThrew' = FALSE
    /\ UNCHANGED <<hooks, nextEvent, beats>>
    /\ UNCHANGED storeVars
    /\ UNCHANGED clientVars
    /\ UNCHANGED fnVars

\* The unsubscribe closure runs; shared by the two loader callbacks.
RunUnsubscribe(c) ==
    LET r == unsubscribe(c)
    IN  /\ subscribers' = r.subscribers
        /\ members' = r.members
        /\ heartbeatTimer' = r.heartbeatTimer
        /\ busThrew' = FALSE

\* loader: ReadableStream.cancel() -- the consumer went away; the stream is
\* closed and the callback calls unsubscribe.
Cancel(c) ==
    /\ ctrl[c] \in {"open", "closed"}
    /\ "cancel" \notin hooks[c]
    /\ hooks' = [hooks EXCEPT ![c] = @ \cup {"cancel"}]
    /\ ctrl' = [ctrl EXCEPT ![c] = "closed"]
    /\ RunUnsubscribe(c)
    /\ UNCHANGED <<subInbox, subSet, received, nextEvent, beats>>
    /\ UNCHANGED storeVars
    /\ UNCHANGED clientVars
    /\ UNCHANGED fnVars

\* loader: request.signal 'abort' listener -- calls unsubscribe.
Abort(c) ==
    /\ ctrl[c] \in {"open", "closed"}
    /\ "abort" \notin hooks[c]
    /\ hooks' = [hooks EXCEPT ![c] = @ \cup {"abort"}]
    /\ RunUnsubscribe(c)
    /\ UNCHANGED <<ctrl, subInbox, subSet, received, nextEvent, beats>>
    /\ UNCHANGED storeVars
    /\ UNCHANGED clientVars
    /\ UNCHANGED fnVars

\* The controller stops accepting writes before any callback has run: the
\* case the catch blocks of notifyInbox and sendHeartbeat are written for.
ControllerClose(c) ==
    /\ ctrl[c] = "open"
    /\ ctrl' = [ctrl EXCEPT ![c] = "closed"]
    /\ UNCHANGED <<subscribers, members, heartbeatTimer, subInbox, subSet,
                   hooks, received, busThrew, nextEvent, beats>>
    /\ UNCHANGED storeVars
    /\ UNCHANGED clientVars
    /\ UNCHANGED fnVars

\* A caller publishes Notification Event number nextEvent to an inbox.
Publish(inboxId) ==
    /\ nextEvent <= MaxEvents
    /\ LET r == notifyInbox(inboxId, Event(nextEvent, inboxId))
       IN  /\ subscribers' = r.subscribers
           /\ members' = r.members
           /\ received' = r.received
           /\ busThrew' = r.threw
    /\ nextEvent' = nextEvent + 1
    /\ UNCHANGED <<heartbeatTimer, ctrl, subInbox, subSet, hooks, beats>>
    /\ UNCHANGED storeVars
    /\ UNCHANGED clientVars
    /\ UNCHANGED fnVars

\* The interval armed by startHeartbeat fires.
HeartbeatTick ==
    /\ heartbeatTimer
    /\ beats < MaxBeats
    /\ LET r == sendHeartbeat
       IN  /\ subscribers' = r.subscribers
           /\ members' = r.members
           /\ received' = r.received
           /\ busThrew' = r.threw
    /\ beats' = beats + 1
    /\ UNCHANGED <<heartbeatTimer, ctrl, subInbox, subSet, hooks, nextEvent>>
    /\ UNCHANGED storeVars
    /\ UNCHANGED clientVars
    /\ UNCHANGED fnVars

BusSteps ==
    \/ \E c \in Conns, i \in Inboxes : Connect(c, i)
    \/ \E c \in Conns : Cancel(c)
    \/ \E c \in Conns : Abort(c)
    \/ \E c \in Conns : ControllerClose(c)
    \/ \E i \in Inboxes : Publish(i)
    \/ HeartbeatTick


(***************************************************************************)
(* Part B.  Threading utilities (threading.server.ts).                     *)
(*                                                                         *)
(* Strings are sequences of one-character strings, so that the regular     *)
(* expressions of the source are computed and not assumed.  The empty      *)
(* sequence stands for every falsy string value ('' , null, undefined):    *)
(* the source only ever tests such values with !x or x || y.               *)
(***************************************************************************)
UpperCase == <<"A","B","C","D","E","F","G","H","I","J","K","L","M",
               "N","O","P","Q","R","S","T","U","V","W","X","Y","Z">>
LowerCase == <<"a","b","c","d","e","f","g","h","i","j","k","l","m",
               "n","o","p","q","r","s","t","u","v","w","x","y","z">>
Digits == {"0","1","2","3","4","5","6","7","8","9"}
Whitespace == {" ", "\t", "\n", "\r"}

\* String.prototype.toLowerCase, on the ASCII letters.
ToLowerChar(ch) ==
    IF \E k \in 1..Len(UpperCase) : UpperCase[k] = ch
    THEN LowerCase[CHOOSE k \in 1..Len(UpperCase) : UpperCase[k] = ch]
    ELSE ch

toLowerCase(str) == [k \in 1..Len(str) |-> ToLowerChar(str[k])]

RECURSIVE TrimStart(_)
TrimStart(str) ==
    IF str # <<>> /\ Head(str) \in Whitespace THEN TrimStart(Tail(str)) ELSE str

RECURSIVE TrimEnd(_)
TrimEnd(str) ==
    IF str # <<>> /\ str[Len(str)] \in Whitespace
    THEN TrimEnd(SubSeq(str, 1, Len(str) - 1)) ELSE str

\* String.prototype.trim
trim(str) == TrimEnd(TrimStart(str))

StartsWith(str, pre) == Len(pre) <= Len(str) /\ SubSeq(str, 1, Len(pre)) = pre

EndsWith(str, suf) ==
    Len(suf) <= Len(str) /\ SubSeq(str, Len(str) - Len(suf) + 1, Len(str)) = suf

Drop(str, n) == SubSeq(str, n + 1, Len(str))

\* String.prototype.substring(0, n)
substring(str, n) == SubSeq(str, 1, IF Len(str) < n THEN Len(str) ELSE n)

(***************************************************************************)
(* normalizeSubject.  prefixPattern is                                     *)
(*   /^(re|fwd?|fw|aw|sv|r|rif|tr|doorst)(\[\d+\])?:\s*/i                  *)
(* A match is one of the prefix words, then optionally a bracketed run of  *)
(* digits, then a colon, then all the whitespace that follows.  No prefix  *)
(* word contains '[' or ':', so at most one word can lead to a match.      *)
(***************************************************************************)
PrefixWords == { <<"r","e">>, <<"f","w">>, <<"f","w","d">>, <<"a","w">>,
                 <<"s","v">>, <<"r">>, <<"r","i","f">>, <<"t","r">>,
                 <<"d","o","o","r","s","t">> }

RECURSIVE SkipDigits(_)
SkipDigits(str) ==
    IF str # <<>> /\ Head(str) \in Digits THEN SkipDigits(Tail(str)) ELSE str

\* What is left after an optional "[digits]" group that must be followed by
\* a colon; <<"fail">> when the text after the prefix word cannot match.
AfterCounterAndColon(str) ==
    IF str # <<>> /\ Head(str) = ":" THEN Tail(str)
    ELSE IF /\ Len(str) >= 2
            /\ str[1] = "["
            /\ str[2] \in Digits
            /\ LET rest == SkipDigits(Tail(str))
               IN  Len(rest) >= 2 /\ rest[1] = "]" /\ rest[2] = ":"
         THEN Drop(SkipDigits(Tail(str)), 2)
         ELSE <<"fail">>

\* normalized.replace(prefixPattern, '')
StripPrefix(str) ==
    LET hits == {w \in PrefixWords :
                    StartsWith(str, w) /\ AfterCounterAndColon(Drop(str, Len(w))) # <<"fail">>}
    IN  IF hits = {} THEN str
        ELSE LET w == CHOOSE w \in hits : TRUE
             IN  TrimStart(AfterCounterAndColon(Drop(str, Len(w))))

\* The do/while loop: strip until a pass changes nothing.
RECURSIVE StripAllPrefixes(_)
StripAllPrefixes(str) ==
    IF StripPrefix(str) = str THEN str ELSE StripAllPrefixes(StripPrefix(str))

\* The function with a single replace in place of the do/while loop.
normalizeSubjectOnePass(subject) ==
    IF subject = <<>> THEN <<>>
    ELSE trim(StripPrefix(trim(toLowerCase(subject))))

normalizeSubjectKeepPrefixes(subject) ==
    IF subject = <<>> THEN <<>> ELSE trim(trim(toLowerCase(subject)))

normalizeSubject(subject) ==
    IF subject = <<>> THEN <<>>
    ELSE trim(StripAllPrefixes(trim(toLowerCase(subject))))

(***************************************************************************)
(* extractMessageIds.  idPattern is /<[^>]+>/g: from a '<', at least one   *)
(* character other than '>' up to the next '>'; matches do not overlap.    *)
(* The header map is a function from header names to values; a missing or  *)
(* empty value falls through the || chain.                                 *)
(***************************************************************************)
IndexOf(str, ch) ==
    IF \E k \in 1..Len(str) : str[k] = ch
    THEN CHOOSE k \in 1..Len(str) : str[k] = ch /\ \A j \in 1..(k - 1) : str[j] # ch
    ELSE 0

\* String.prototype.match(idPattern) || []
RECURSIVE MatchIds(_)
MatchIds(str) ==
    LET lt == IndexOf(str, "<")
        from == Drop(str, lt - 1)
        gt == IndexOf(from, ">")
    IN  IF lt = 0 THEN <<>>
        ELSE IF gt = 0 THEN <<>>
        ELSE IF gt = 2 THEN MatchIds(Drop(from, 1))
        ELSE <<SubSeq(from, 1, gt)>> \o MatchIds(Drop(from, gt))

HeaderGet(headers, name) == IF name \in DOMAIN headers THEN headers[name] ELSE <<>>

FirstTruthy(a, b) == IF a # <<>> THEN a ELSE b

\* Array.from(new Set(list)): first occurrences, in order.
RECURSIVE Dedup(_)
Dedup(list) ==
    IF list = <<>> THEN <<>>
    ELSE LET front == Dedup(SubSeq(list, 1, Len(list) - 1))
             last == list[Len(list)]
         IN  IF \E k \in 1..Len(front) : front[k] = last THEN front ELSE Append(front, last)

\* The function with the In-Reply-To matches put first.
extractMessageIdsReplyFirst(headers) ==
    LET referencesHeader == FirstTruthy(HeaderGet(headers, "references"),
                                        HeaderGet(headers, "References"))
        inReplyToHeader == FirstTruthy(HeaderGet(headers, "in-reply-to"),
                                       HeaderGet(headers, "In-Reply-To"))
    IN  Dedup(MatchIds(inReplyToHeader) \o MatchIds(referencesHeader))

extractMessageIds(headers) ==
    LET referencesHeader == FirstTruthy(HeaderGet(headers, "references"),
                                        HeaderGet(headers, "References"))
        inReplyToHeader == FirstTruthy(HeaderGet(headers, "in-reply-to"),
                                       HeaderGet(headers, "In-Reply-To"))
    IN  Dedup(MatchIds(referencesHeader) \o MatchIds(inReplyToHeader))

(***************************************************************************)
(* Part C.  The store and the clock.                                       *)
(*                                                                         *)
(* Tables are sequences in insertion (rowid) order; a row's id is its      *)
(* position; 0 is NULL.  Timestamp columns hold 'YYYY-MM-DD HH:MM:SS'      *)
(* strings in UTC: they are modelled by the number of whole seconds, which *)
(* orders exactly as the strings do.  The clock counts tenths of a second.  *)
(***************************************************************************)
MaxRequests == 3
MaxTicks == 2
MaxInFlight == 2

Reqs == 1..MaxInFlight

SUBJECT_MATCH_DAYS == 7
TenthsPerSecond == 10
SecondsPerDay == 86400
PreviewLength == 200
Null == 0

\* new Date().toISOString().replace('T', ' ').slice(0, 19): drops the
\* fraction of the second.
FormatTimestamp(clock) == clock \div TenthsPerSecond

\* new Date(str).getTime()
ParseTimestamp(sec) == sec * TenthsPerSecond

\* cutoffDate.setDate(cutoffDate.getDate() - SUBJECT_MATCH_DAYS), on a server
\* whose local time has no offset change inside the window (UTC).
CutoffStr(clock) == FormatTimestamp(clock - SUBJECT_MATCH_DAYS * SecondsPerDay * TenthsPerSecond)

\* The inboxes table: two mailboxes, looked up by local part.
InboxByLocalPart == (<<"a">> :> "inboxA") @@ (<<"b">> :> "inboxB")
appDomain == <<"i","n","n","b","o","x",".","d","e","v">>

NoThread == [inboxId |-> "none", normalizedSubject |-> <<>>, participants |-> <<>>,
             messageCount |-> 0, unreadCount |-> 0, latestMessageId |-> <<>>,
             latestMessageAt |-> 0, latestPreview |-> <<>>]

NoPayload == [kind |-> "none"]

IdleReq == [pc |-> "idle", kind |-> "none", n |-> 0, p |-> NoPayload, inboxId |-> "none",
            threadId |-> Null, cutoff |-> 0, timestamp |-> 0,
            snap |-> NoThread, ids |-> {}, count |-> 0, status |-> 0]

InitStore ==
    /\ threads = <<>>
    /\ emails = <<>>
    /\ sentEmails = <<>>
    /\ now = 5
    /\ ticks = 0
    /\ req = [r \in Reqs |-> IdleReq]
    /\ started = 0

\* The first of the rows (by rowid) that a query selects: what .get() returns
\* for a query without ORDER BY, or Null when it selects none.
FirstRow(rows) ==
    IF rows = {} THEN Null
    ELSE CHOOSE k \in rows : \A j \in rows : k <= j

(***************************************************************************)
(* findThreadForEmail.  Strategy 1 walks the referenced ids in order and,  *)
(* for each, asks the emails table and then the sent_emails table for a    *)
(* row of this inbox with that Message-ID; the first row found that has a  *)
(* thread decides.  Strategy 2 takes the threads of the inbox with the     *)
(* same normalized subject whose latestMessageAt is >= the cutoff, most    *)
(* recent first.  The result is the set of values the call can return:     *)
(* ORDER BY leaves the order of equal latestMessageAt values open.         *)
(***************************************************************************)
RECURSIVE MatchByReferences(_, _)
MatchByReferences(inboxId, referencedIds) ==
    IF referencedIds = <<>> THEN Null
    ELSE LET refId == Head(referencedIds)
             IsHit(row) == row.inboxId = inboxId /\ row.messageId = refId
             matchingEmail == FirstRow({k \in 1..Len(emails) : IsHit(emails[k])})
             matchingSent == FirstRow({k \in 1..Len(sentEmails) : IsHit(sentEmails[k])})
         IN  IF matchingEmail # Null /\ emails[matchingEmail].threadId # Null
             THEN emails[matchingEmail].threadId
             ELSE IF matchingSent # Null /\ sentEmails[matchingSent].threadId # Null
             THEN sentEmails[matchingSent].threadId
             ELSE MatchByReferences(inboxId, Tail(referencedIds))

SubjectCandidates(inboxId, normalized, cutoffStr) ==
    {t \in 1..Len(threads) :
        /\ threads[t].inboxId = inboxId
        /\ threads[t].normalizedSubject = normalized
        /\ threads[t].latestMessageAt >= cutoffStr}

\* Strategy 2 without its test "if (normalized)".
MatchBySubjectEmptyToo(inboxId, subject, clock) ==
    LET normalized == normalizeSubject(subject)
        cands == SubjectCandidates(inboxId, normalized, CutoffStr(clock))
    IN  IF cands = {} THEN {Null}
        ELSE {t \in cands :
                 \A u \in cands : threads[u].latestMessageAt <= threads[t].latestMessageAt}

MatchBySubject(inboxId, subject, clock) ==
    LET normalized == normalizeSubject(subject)
        cands == SubjectCandidates(inboxId, normalized, CutoffStr(clock))
    IN  IF normalized = <<>> \/ cands = {} THEN {Null}
        ELSE {t \in cands :
                 \A u \in cands : threads[u].latestMessageAt <= threads[t].latestMessageAt}

findThreadSubjectFirst(inboxId, headers, subject, clock) ==
    IF MatchBySubject(inboxId, subject, clock) # {Null}
    THEN MatchBySubject(inboxId, subject, clock)
    ELSE {MatchByReferences(inboxId, extractMessageIds(headers))}

findThreadForEmail(inboxId, headers, subject, clock) ==
    LET byRef == MatchByReferences(inboxId, extractMessageIds(headers))
    IN  IF byRef # Null THEN {byRef} ELSE MatchBySubject(inboxId, subject, clock)

(***************************************************************************)
(* createThread: the row inserted for the first received message.          *)
(***************************************************************************)
createThread(inboxId, subject, fromAddress, preview, receivedAt) ==
    [inboxId |-> inboxId,
     normalizedSubject |-> normalizeSubject(subject),
     participants |-> <<fromAddress>>,
     messageCount |-> 1,
     unreadCount |-> 1,
     latestMessageId |-> <<>>,
     latestMessageAt |-> receivedAt,
     latestPreview |-> substring(preview, PreviewLength)]

(***************************************************************************)
(* updateThreadStats, after its SELECT: the columns it assigns, computed   *)
(* from the row it read (thread) and its options.  Only these columns are  *)
(* written by the UPDATE; every other column keeps what the table holds.   *)
(***************************************************************************)
ThreadUpdatesAlwaysLatest(thread, opts) ==
    ("messageCount" :> thread.messageCount + 1)
    @@ ("latestMessageAt" :> opts.timestamp)
    @@ (IF opts.messageId # <<>> THEN "latestMessageId" :> opts.messageId ELSE <<>>)
    @@ ("latestPreview" :> substring(opts.preview, PreviewLength))
    @@ (IF opts.incrementUnread THEN "unreadCount" :> thread.unreadCount + 1 ELSE <<>>)

ThreadUpdates(thread, opts) ==
    ("messageCount" :> thread.messageCount + 1)
    @@ (IF ParseTimestamp(opts.timestamp) >= ParseTimestamp(thread.latestMessageAt)
        THEN ("latestMessageAt" :> opts.timestamp)
             @@ (IF opts.messageId # <<>> THEN "latestMessageId" :> opts.messageId ELSE <<>>)
             @@ ("latestPreview" :> substring(opts.preview, PreviewLength))
        ELSE <<>>)
    @@ (IF opts.incrementUnread
        THEN "unreadCount" :> thread.unreadCount + 1
        ELSE IF opts.decrementUnread /\ thread.unreadCount > 0
        THEN "unreadCount" :> thread.unreadCount - 1
        ELSE <<>>)
    @@ (IF opts.fromAddress # "" /\ ~\E k \in 1..Len(thread.participants) :
                                        thread.participants[k] = opts.fromAddress
        THEN "participants" :> Append(thread.participants, opts.fromAddress)
        ELSE <<>>)

\* db.update(threads).set(updates).where(eq(threads.id, threadId))
ApplyUpdates(row, updates) ==
    [col \in DOMAIN row |-> IF col \in DOMAIN updates THEN updates[col] ELSE row[col]]

(***************************************************************************)
(* Part D.  The webhook (routes/api.webhook.email, action).  A request     *)
(* occupies a slot; every await that reaches the database is a step, so    *)
(* that other requests and the clock can move in between.                  *)
(***************************************************************************)
InFlight == {r \in Reqs : req[r].pc \notin {"idle", "done"}}

FreeSlot(r) ==
    /\ req[r].pc \in {"idle", "done"}
    /\ \A q \in Reqs : q < r => req[q].pc \notin {"idle", "done"}

\* toAddress.split('@')[0]
LocalPartOf(toAddress) ==
    IF IndexOf(toAddress, "@") = 0 THEN toAddress
    ELSE SubSeq(toAddress, 1, IndexOf(toAddress, "@") - 1)

\* payload.text?.substring(0, 200) || null
PreviewOf(payload) == substring(payload.text, PreviewLength)

Respond(r, code) == req' = [req EXCEPT ![r] = [@ EXCEPT !.pc = "done", !.status = code]]

\* The raw request body: everything of the request but its method and its
\* signature header.
RawBody(payload) ==
    <<payload.json, payload.toPresent, payload.to, payload.messageId, payload.from,
      payload.subject, payload.text, payload.headers>>

\* sign(payload, secret): base64 of the HMAC-SHA256 of the body under the
\* secret, a value that stands for exactly this body and this secret.
sign(body, secret) == <<"hmac-sha256", secret, body>>

WEBHOOK_SECRET == "secret"
NoSignature == <<>>

\* The handler without its two signature checks.
WebhookBeginUnauthenticated(r, payload, limit, most) ==
    /\ FreeSlot(r)
    /\ Cardinality(InFlight) < limit
    /\ started < most
    /\ started' = started + 1
    /\ LET fresh == [IdleReq EXCEPT !.kind = "webhook", !.n = started + 1, !.p = payload]
           toAddress == toLowerCase(payload.to)
           localPart == LocalPartOf(toAddress)
           answer(code) == req' = [req EXCEPT ![r] = [fresh EXCEPT !.pc = "done", !.status = code]]
       IN  IF payload.method # "POST" THEN answer(405)
           ELSE IF ~payload.json THEN answer(400)
           ELSE IF ~payload.toPresent THEN answer(500)
           ELSE IF ~EndsWith(toAddress, <<"@">> \o appDomain) THEN answer(400)
           ELSE IF localPart \notin DOMAIN InboxByLocalPart THEN answer(404)
           ELSE req' = [req EXCEPT ![r] = [fresh EXCEPT !.pc = "find",
                                                        !.inboxId = InboxByLocalPart[localPart]]]
    /\ UNCHANGED <<threads, emails, sentEmails, now, ticks>>
    /\ UNCHANGED busVars
    /\ UNCHANGED clientVars
    /\ UNCHANGED fnVars

\* Method check, signature check, JSON.parse, domain check, inbox lookup.
WebhookBegin(r, payload, limit, most) ==
    /\ FreeSlot(r)
    /\ Cardinality(InFlight) < limit
    /\ started < most
    /\ started' = started + 1
    /\ LET fresh == [IdleReq EXCEPT !.kind = "webhook", !.n = started + 1, !.p = payload]
           toAddress == toLowerCase(payload.to)
           localPart == LocalPartOf(toAddress)
           answer(code) == req' = [req EXCEPT ![r] = [fresh EXCEPT !.pc = "done", !.status = code]]
       IN  IF payload.method # "POST" THEN answer(405)
           ELSE IF payload.signature = NoSignature THEN answer(401)
           ELSE IF payload.signature # sign(RawBody(payload), WEBHOOK_SECRET) THEN answer(401)
           ELSE IF ~payload.json THEN answer(400)
           ELSE IF ~payload.toPresent THEN answer(500)
           ELSE IF ~EndsWith(toAddress, <<"@">> \o appDomain) THEN answer(400)
           ELSE IF localPart \notin DOMAIN InboxByLocalPart THEN answer(404)
           ELSE req' = [req EXCEPT ![r] = [fresh EXCEPT !.pc = "find",
                                                        !.inboxId = InboxByLocalPart[localPart]]]
    /\ UNCHANGED <<threads, emails, sentEmails, now, ticks>>
    /\ UNCHANGED busVars
    /\ UNCHANGED clientVars
    /\ UNCHANGED fnVars

\* await findThreadForEmail(inbox.id, payload.messageId, headers, payload.subject)
WebhookFind(r) ==
    /\ req[r].pc = "find"
    /\ \E t \in findThreadForEmail(req[r].inboxId, req[r].p.headers, req[r].p.subject, now) :
          req' = [req EXCEPT ![r] = [@ EXCEPT !.pc = "stamp", !.threadId = t,
                                              !.cutoff = CutoffStr(now)]]
    /\ UNCHANGED <<threads, emails, sentEmails, now, ticks, started>>
    /\ UNCHANGED busVars
    /\ UNCHANGED clientVars
    /\ UNCHANGED fnVars

\* const timestamp = new Date()...; then the branch on threadId.
WebhookStamp(r) ==
    /\ req[r].pc = "stamp"
    /\ req' = [req EXCEPT ![r] = [@ EXCEPT
                 !.pc = IF req[r].threadId = Null THEN "create" ELSE "updRead",
                 !.timestamp = FormatTimestamp(now)]]
    /\ UNCHANGED <<threads, emails, sentEmails, now, ticks, started>>
    /\ UNCHANGED busVars
    /\ UNCHANGED clientVars
    /\ UNCHANGED fnVars

\* await createThread(inbox.id, payload.subject, payload.from.address, preview, timestamp)
WebhookCreate(r) ==
    /\ req[r].pc = "create"
    /\ threads' = Append(threads, createThread(req[r].inboxId, req[r].p.subject,
                                               req[r].p.from, PreviewOf(req[r].p),
                                               req[r].timestamp))
    /\ req' = [req EXCEPT ![r] = [@ EXCEPT !.pc = "insert", !.threadId = Len(threads) + 1]]
    /\ UNCHANGED <<emails, sentEmails, now, ticks, started>>
    /\ UNCHANGED busVars
    /\ UNCHANGED clientVars
    /\ UNCHANGED fnVars

\* const sentMessageId = `<${crypto.randomUUID()}@${appDomain}>`: an id no
\* other message carries, here built from the number of the request.
DigitChars == <<"0","1","2","3","4","5","6","7","8","9">>
SentMessageId(n) == <<"<", "s", DigitChars[n + 1], ">">>

\* The options the caller hands to updateThreadStats: the webhook passes
\* messageId, preview, timestamp, fromAddress and incrementUnread; the send
\* route passes messageId, preview, timestamp and isSentEmail.
OptsOf(rq) ==
    IF rq.kind = "webhook"
    THEN [messageId |-> rq.p.messageId,
          preview |-> PreviewOf(rq.p),
          timestamp |-> rq.timestamp,
          fromAddress |-> rq.p.from,
          incrementUnread |-> TRUE,
          decrementUnread |-> FALSE,
          isSentEmail |-> FALSE]
    ELSE [messageId |-> SentMessageId(rq.n),
          preview |-> substring(rq.p.bodyText, PreviewLength),
          timestamp |-> rq.timestamp,
          fromAddress |-> "",
          incrementUnread |-> FALSE,
          decrementUnread |-> FALSE,
          isSentEmail |-> TRUE]

\* updateThreadStats: the SELECT of the thread row.
UpdateRead(r) ==
    /\ req[r].pc = "updRead"
    /\ req' = [req EXCEPT ![r] = [@ EXCEPT !.pc = "updWrite",
                                           !.snap = threads[req[r].threadId]]]
    /\ UNCHANGED <<threads, emails, sentEmails, now, ticks, started>>
    /\ UNCHANGED busVars
    /\ UNCHANGED clientVars
    /\ UNCHANGED fnVars

\* An UPDATE computed from the row the table holds at the time of the write.
UpdateWriteFromTable(r) ==
    /\ req[r].pc = "updWrite"
    /\ threads' = [threads EXCEPT ![req[r].threadId] =
                      ApplyUpdates(@, ThreadUpdates(@, OptsOf(req[r])))]
    /\ req' = [req EXCEPT ![r] =
                 IF req[r].kind = "webhook"
                 THEN [@ EXCEPT !.pc = "insert"]
                 ELSE [@ EXCEPT !.pc = "done", !.status = 200]]
    /\ UNCHANGED <<emails, sentEmails, now, ticks, started>>
    /\ UNCHANGED busVars
    /\ UNCHANGED clientVars
    /\ UNCHANGED fnVars

\* updateThreadStats: the UPDATE computed from the row that was read.
UpdateWrite(r) ==
    /\ req[r].pc = "updWrite"
    /\ threads' = [threads EXCEPT ![req[r].threadId] =
                      ApplyUpdates(@, ThreadUpdates(req[r].snap, OptsOf(req[r])))]
    /\ req' = [req EXCEPT ![r] =
                 IF req[r].kind = "webhook"
                 THEN [@ EXCEPT !.pc = "insert"]
                 ELSE [@ EXCEPT !.pc = "done", !.status = 200]]
    /\ UNCHANGED <<emails, sentEmails, now, ticks, started>>
    /\ UNCHANGED busVars
    /\ UNCHANGED clientVars
    /\ UNCHANGED fnVars

\* An insert that is skipped when the mailbox already holds a row with the
\* Message-ID of the payload.
WebhookInsertOnce(r) ==
    /\ req[r].pc = "insert"
    /\ emails' = IF \E k \in 1..Len(emails) :
                       /\ emails[k].inboxId = req[r].inboxId
                       /\ emails[k].messageId = req[r].p.messageId
                 THEN emails
                 ELSE Append(emails,
                        [inboxId |-> req[r].inboxId,
                         threadId |-> req[r].threadId,
                         messageId |-> req[r].p.messageId,
                         fromAddress |-> req[r].p.from,
                         subject |-> req[r].p.subject,
                         rawHeaders |-> req[r].p.headers,
                         isRead |-> FALSE,
                         receivedAt |-> FormatTimestamp(now)])
    /\ Respond(r, 200)
    /\ UNCHANGED <<threads, sentEmails, now, ticks, started>>
    /\ UNCHANGED busVars
    /\ UNCHANGED clientVars
    /\ UNCHANGED fnVars

\* db.insert(emails) ... returning(), then the 200 response.
WebhookInsert(r) ==
    /\ req[r].pc = "insert"
    /\ emails' = Append(emails,
                   [inboxId |-> req[r].inboxId,
                    threadId |-> req[r].threadId,
                    messageId |-> req[r].p.messageId,
                    fromAddress |-> req[r].p.from,
                    subject |-> req[r].p.subject,
                    rawHeaders |-> req[r].p.headers,
                    isRead |-> FALSE,
                    receivedAt |-> FormatTimestamp(now)])
    /\ Respond(r, 200)
    /\ UNCHANGED <<threads, sentEmails, now, ticks, started>>
    /\ UNCHANGED busVars
    /\ UNCHANGED clientVars
    /\ UNCHANGED fnVars

\* db.insert(emails) rejects (a constraint of the table fails, the database
\* is unreachable): the action throws after the threading step and the
\* request is answered 500.
WebhookInsertFails(r) ==
    /\ req[r].pc = "insert"
    /\ Respond(r, 500)
    /\ UNCHANGED <<threads, emails, sentEmails, now, ticks, started>>
    /\ UNCHANGED busVars
    /\ UNCHANGED clientVars
    /\ UNCHANGED fnVars

\* Time passes.
Tick(jumps) ==
    /\ ticks < MaxTicks
    /\ \E d \in jumps : now' = now + d
    /\ ticks' = ticks + 1
    /\ UNCHANGED <<threads, emails, sentEmails, req, started>>
    /\ UNCHANGED busVars
    /\ UNCHANGED clientVars
    /\ UNCHANGED fnVars

\* Days pass only while no request is being served; a request itself takes
\* fractions of a second.
IdleTick(jumps) == InFlight = {} /\ Tick(jumps)

WebhookSteps(pool, limit, most) ==
    \/ \E r \in Reqs, payload \in pool : WebhookBegin(r, payload, limit, most)
    \/ \E r \in Reqs : WebhookFind(r)
    \/ \E r \in Reqs : WebhookStamp(r)
    \/ \E r \in Reqs : WebhookCreate(r)
    \/ \E r \in Reqs : UpdateRead(r)
    \/ \E r \in Reqs : UpdateWrite(r)
    \/ \E r \in Reqs : WebhookInsert(r)

(***************************************************************************)
(* Part E.  The send route (routes/api.email.send.ts, action).  The        *)
(* session and access checks are outside the model: the caller is a        *)
(* signed-in user with access to the inbox named in the form.              *)
(***************************************************************************)
createThreadForSentEmail(inboxId, subject, recipientAddress, preview, sentAt) ==
    [inboxId |-> inboxId,
     normalizedSubject |-> normalizeSubject(subject),
     participants |-> <<recipientAddress>>,
     messageCount |-> 1,
     unreadCount |-> 0,
     latestMessageId |-> <<>>,
     latestMessageAt |-> sentAt,
     latestPreview |-> substring(preview, PreviewLength)]

\* Field checks, inbox lookup, recipients; for a reply the SELECT of the
\* original email (by id alone), for a fresh mail the timestamp.
SendBegin(r, form, limit, most) ==
    /\ FreeSlot(r)
    /\ Cardinality(InFlight) < limit
    /\ started < most
    /\ started' = started + 1
    /\ LET fresh == [IdleReq EXCEPT !.kind = "send", !.n = started + 1, !.p = form,
                                    !.inboxId = form.inboxId]
           answer(code) == req' = [req EXCEPT ![r] = [fresh EXCEPT !.pc = "done", !.status = code]]
           originalEmail == IF form.inReplyToId \in 1..Len(emails)
                            THEN form.inReplyToId ELSE Null
       IN  IF form.inboxId = "" \/ form.to = <<>> \/ form.subject = <<>> THEN answer(400)
           ELSE IF form.inboxId \notin Inboxes THEN answer(404)
           ELSE IF form.inReplyToId # Null
           THEN req' = [req EXCEPT ![r] = [fresh EXCEPT
                          !.pc = "provider",
                          !.threadId = IF originalEmail # Null
                                       THEN emails[originalEmail].threadId ELSE Null]]
           ELSE req' = [req EXCEPT ![r] = [fresh EXCEPT
                          !.pc = "sCreate", !.timestamp = FormatTimestamp(now)]]
    /\ UNCHANGED <<threads, emails, sentEmails, now, ticks>>
    /\ UNCHANGED busVars
    /\ UNCHANGED clientVars
    /\ UNCHANGED fnVars

\* await createThreadForSentEmail(inboxId, subject, toRecipients[0].email, preview, timestamp)
SendCreate(r) ==
    /\ req[r].pc = "sCreate"
    /\ threads' = Append(threads,
                     createThreadForSentEmail(req[r].inboxId, req[r].p.subject,
                                              req[r].p.to[1], req[r].p.bodyText,
                                              req[r].timestamp))
    /\ req' = [req EXCEPT ![r] = [@ EXCEPT !.pc = "provider", !.threadId = Len(threads) + 1]]
    /\ UNCHANGED <<emails, sentEmails, now, ticks, started>>
    /\ UNCHANGED busVars
    /\ UNCHANGED clientVars
    /\ UNCHANGED fnVars

\* await sendEmail(...): the provider accepts the mail or not.
SendProvider(r) ==
    /\ req[r].pc = "provider"
    /\ \E success \in BOOLEAN :
          req' = [req EXCEPT ![r] = IF success THEN [@ EXCEPT !.pc = "sInsert"]
                                   ELSE [@ EXCEPT !.pc = "done", !.status = 500]]
    /\ UNCHANGED <<threads, emails, sentEmails, now, ticks, started>>
    /\ UNCHANGED busVars
    /\ UNCHANGED clientVars
    /\ UNCHANGED fnVars

\* db.insert(sentEmails); the address book upserts that follow touch no
\* table of the model.
SendInsert(r) ==
    /\ req[r].pc = "sInsert"
    /\ sentEmails' = Append(sentEmails,
                       [inboxId |-> req[r].inboxId,
                        threadId |-> req[r].threadId,
                        inReplyToId |-> req[r].p.inReplyToId,
                        messageId |-> SentMessageId(req[r].n),
                        sentAt |-> FormatTimestamp(now)])
    /\ req' = [req EXCEPT ![r] =
                 IF req[r].threadId # Null /\ req[r].p.inReplyToId # Null
                 THEN [@ EXCEPT !.pc = "sStamp"]
                 ELSE IF req[r].threadId # Null
                 THEN [@ EXCEPT !.pc = "sLatest"]
                 ELSE [@ EXCEPT !.pc = "done", !.status = 200]]
    /\ UNCHANGED <<threads, emails, now, ticks, started>>
    /\ UNCHANGED busVars
    /\ UNCHANGED clientVars
    /\ UNCHANGED fnVars

\* Reply: const timestamp = new Date()...; updateThreadStats follows.
SendStamp(r) ==
    /\ req[r].pc = "sStamp"
    /\ req' = [req EXCEPT ![r] = [@ EXCEPT !.pc = "updRead",
                                           !.timestamp = FormatTimestamp(now)]]
    /\ UNCHANGED <<threads, emails, sentEmails, now, ticks, started>>
    /\ UNCHANGED busVars
    /\ UNCHANGED clientVars
    /\ UNCHANGED fnVars

\* Fresh mail: db.update(threads).set({ latestMessageId: sentMessageId })
SendSetLatest(r) ==
    /\ req[r].pc = "sLatest"
    /\ threads' = [threads EXCEPT ![req[r].threadId] =
                      [@ EXCEPT !.latestMessageId = SentMessageId(req[r].n)]]
    /\ Respond(r, 200)
    /\ UNCHANGED <<emails, sentEmails, now, ticks, started>>
    /\ UNCHANGED busVars
    /\ UNCHANGED clientVars
    /\ UNCHANGED fnVars

SendSteps(forms, limit, most) ==
    \/ \E r \in Reqs, form \in forms : SendBegin(r, form, limit, most)
    \/ \E r \in Reqs : SendCreate(r)
    \/ \E r \in Reqs : SendProvider(r)
    \/ \E r \in Reqs : SendInsert(r)
    \/ \E r \in Reqs : SendStamp(r)
    \/ \E r \in Reqs : SendSetLatest(r)

(***************************************************************************)
(* Part F.  The thread view (routes/_app.inbox.$inboxId.thread.$threadId,  *)
(* loader): it marks the unread Messages of the Thread as read and then    *)
(* calls recalculateThreadUnreadCount.  Session and access checks are      *)
(* outside the model.                                                      *)
(***************************************************************************)
UnreadOf(threadId) ==
    {k \in 1..Len(emails) : emails[k].threadId = threadId /\ ~emails[k].isRead}

\* The SELECT of the thread (404 when the inbox has no such thread) and of
\* its received emails; initiallyUnreadIds is what is unread at that moment.
ViewBegin(r, view, limit, most) ==
    /\ FreeSlot(r)
    /\ Cardinality(InFlight) < limit
    /\ started < most
    /\ started' = started + 1
    /\ LET fresh == [IdleReq EXCEPT !.kind = "view", !.n = started + 1, !.p = view,
                                    !.inboxId = view.inboxId, !.threadId = view.threadId]
           found == /\ view.threadId \in 1..Len(threads)
                    /\ threads[view.threadId].inboxId = view.inboxId
           initiallyUnreadIds == UnreadOf(view.threadId)
       IN  req' = [req EXCEPT ![r] =
                     IF ~found THEN [fresh EXCEPT !.pc = "done", !.status = 404]
                     ELSE IF initiallyUnreadIds = {}
                     THEN [fresh EXCEPT !.pc = "done", !.status = 200]
                     ELSE [fresh EXCEPT !.pc = "mark", !.ids = initiallyUnreadIds]]
    /\ UNCHANGED <<threads, emails, sentEmails, now, ticks>>
    /\ UNCHANGED busVars
    /\ UNCHANGED clientVars
    /\ UNCHANGED fnVars

\* One of the UPDATEs of Promise.all: db.update(emails).set({ isRead: true })
ViewMark(r) ==
    /\ req[r].pc = "mark"
    /\ \E k \in req[r].ids :
          /\ emails' = [emails EXCEPT ![k] = [@ EXCEPT !.isRead = TRUE]]
          /\ req' = [req EXCEPT ![r] =
                       [@ EXCEPT !.ids = @ \ {k},
                                 !.pc = IF req[r].ids = {k} THEN "recalcRead" ELSE "mark"]]
    /\ UNCHANGED <<threads, sentEmails, now, ticks, started>>
    /\ UNCHANGED busVars
    /\ UNCHANGED clientVars
    /\ UNCHANGED fnVars

\* recalculateThreadUnreadCount: SELECT count(*) of the unread emails.
RecalcRead(r) ==
    /\ req[r].pc = "recalcRead"
    /\ req' = [req EXCEPT ![r] = [@ EXCEPT !.pc = "recalcWrite",
                                           !.count = Cardinality(UnreadOf(req[r].threadId))]]
    /\ UNCHANGED <<threads, emails, sentEmails, now, ticks, started>>
    /\ UNCHANGED busVars
    /\ UNCHANGED clientVars
    /\ UNCHANGED fnVars

\* recalculateThreadUnreadCount: UPDATE threads SET unreadCount.
RecalcWrite(r) ==
    /\ req[r].pc = "recalcWrite"
    /\ threads' = [threads EXCEPT ![req[r].threadId] =
                      [@ EXCEPT !.unreadCount = req[r].count]]
    /\ Respond(r, 200)
    /\ UNCHANGED <<emails, sentEmails, now, ticks, started>>
    /\ UNCHANGED busVars
    /\ UNCHANGED clientVars
    /\ UNCHANGED fnVars

ViewSteps(views, limit, most) ==
    \/ \E r \in Reqs, view \in views : ViewBegin(r, view, limit, most)
    \/ \E r \in Reqs : ViewMark(r)
    \/ \E r \in Reqs : RecalcRead(r)
    \/ \E r \in Reqs : RecalcWrite(r)

(***************************************************************************)
(* Part G.  The streaming client (app/hooks/useInboxSSE.ts).  Each         *)
(* new EventSource is a channel; a closed EventSource dispatches no more   *)
(* events.  The hook is enabled; the effects mount and unmount together.   *)
(***************************************************************************)
MaxChannels == 3

Channels == 1..MaxChannels

MAX_RETRIES == 3
INITIAL_RETRY_DELAY == 1000
FALLBACK_POLL_INTERVAL == 10000
NoChannel == 0
NoTimer == 0

RECURSIVE Pow2(_)
Pow2(n) == IF n = 0 THEN 1 ELSE 2 * Pow2(n - 1)

InitClient ==
    /\ eventSourceRef = NoChannel
    /\ chan = [c \in Channels |-> "none"]
    /\ retryCountRef = 0
    /\ retryTimeoutRef = NoTimer
    /\ pendingTimeouts = {}
    /\ fallbackIntervalRef = FALSE
    /\ connectionState = "connecting"
    /\ hidden = FALSE
    /\ mounted = FALSE
    /\ revalidatorState = "idle"
    /\ ackedAfter = -1

\* The channels that can still dispatch events.
Live == {c \in Channels : chan[c] \in {"connecting", "open"}}

\* if (revalidator.state === 'idle') revalidator.revalidate()
Revalidate(state) == IF state = "idle" THEN "loading" ELSE state

\* clearRetryTimeout: clearTimeout of the timer the ref holds.
ClearRetryTimeout(timers, ref) == IF ref # NoTimer THEN timers \ {ref} ELSE timers

\* eventSourceRef.current.close()
CloseCurrent(ch, ref) == IF ref # NoChannel THEN [ch EXCEPT ![ref] = "closed"] ELSE ch

\* The channels a new EventSource can take: a closed EventSource is inert,
\* so its place is free again.
Fresh == {c \in Channels : chan[c] \in {"none", "closed"} /\ c # eventSourceRef}

\* The retry delays the hook can arm.
Delays == {INITIAL_RETRY_DELAY * Pow2(k) : k \in 0..MAX_RETRIES}

\* connect(): what it leaves behind, given the retry count it finds.
connect(retryCount) ==
    LET closed == CloseCurrent(chan, eventSourceRef)
        timers == ClearRetryTimeout(pendingTimeouts, retryTimeoutRef)
        new == CHOOSE c \in Fresh : \A b \in Fresh : c <= b
    IN  IF retryCount >= MAX_RETRIES
        THEN [eventSourceRef |-> eventSourceRef, chan |-> closed,
              pendingTimeouts |-> timers, fallbackIntervalRef |-> TRUE,
              connectionState |-> "polling"]
        ELSE [eventSourceRef |-> new, chan |-> [closed EXCEPT ![new] = "connecting"],
              pendingTimeouts |-> timers, fallbackIntervalRef |-> fallbackIntervalRef,
              connectionState |-> "connecting"]

\* connect() can run as long as a fresh channel is left.
CanConnect == Fresh # {}

RunConnect(retryCount) ==
    /\ CanConnect
    /\ LET r == connect(retryCount)
       IN  /\ eventSourceRef' = r.eventSourceRef
           /\ chan' = r.chan
           /\ pendingTimeouts' = r.pendingTimeouts
           /\ fallbackIntervalRef' = r.fallbackIntervalRef
           /\ connectionState' = r.connectionState
    /\ retryTimeoutRef' = NoTimer
    /\ retryCountRef' = retryCount

\* disconnect() that forgets the pending retry timer.
RunDisconnectKeepTimer ==
    /\ chan' = CloseCurrent(chan, eventSourceRef)
    /\ eventSourceRef' = NoChannel
    /\ pendingTimeouts' = pendingTimeouts
    /\ retryTimeoutRef' = retryTimeoutRef
    /\ fallbackIntervalRef' = FALSE
    /\ connectionState' = "disconnected"
    /\ UNCHANGED retryCountRef

\* disconnect()
RunDisconnect ==
    /\ chan' = CloseCurrent(chan, eventSourceRef)
    /\ eventSourceRef' = NoChannel
    /\ pendingTimeouts' = ClearRetryTimeout(pendingTimeouts, retryTimeoutRef)
    /\ retryTimeoutRef' = NoTimer
    /\ fallbackIntervalRef' = FALSE
    /\ connectionState' = "disconnected"
    /\ UNCHANGED retryCountRef

\* Main effect: connect on mount when the tab is visible.
Mount ==
    /\ ~mounted
    /\ mounted' = TRUE
    /\ IF hidden
       THEN UNCHANGED <<eventSourceRef, chan, pendingTimeouts, fallbackIntervalRef,
                        connectionState, retryTimeoutRef, retryCountRef>>
       ELSE RunConnect(retryCountRef)
    /\ UNCHANGED <<hidden, revalidatorState, ackedAfter>>
    /\ UNCHANGED busVars
    /\ UNCHANGED storeVars
    /\ UNCHANGED fnVars

\* Main effect cleanup: disconnect on unmount.
Unmount ==
    /\ mounted
    /\ mounted' = FALSE
    /\ RunDisconnect
    /\ UNCHANGED <<hidden, revalidatorState, ackedAfter>>
    /\ UNCHANGED busVars
    /\ UNCHANGED storeVars
    /\ UNCHANGED fnVars

\* A 'connected' listener that leaves the retry count alone.
ServerAckKeepRetries(c) ==
    /\ chan[c] = "connecting"
    /\ chan' = [chan EXCEPT ![c] = "open"]
    /\ connectionState' = "connected"
    /\ ackedAfter' = retryCountRef
    /\ fallbackIntervalRef' = FALSE
    /\ revalidatorState' = Revalidate(revalidatorState)
    /\ UNCHANGED <<eventSourceRef, retryCountRef, retryTimeoutRef, pendingTimeouts,
                   hidden, mounted>>
    /\ UNCHANGED busVars
    /\ UNCHANGED storeVars
    /\ UNCHANGED fnVars

\* The 'connected' listener of a channel runs.
ServerAck(c) ==
    /\ chan[c] = "connecting"
    /\ chan' = [chan EXCEPT ![c] = "open"]
    /\ connectionState' = "connected"
    /\ ackedAfter' = retryCountRef
    /\ retryCountRef' = 0
    /\ fallbackIntervalRef' = FALSE
    /\ revalidatorState' = Revalidate(revalidatorState)
    /\ UNCHANGED <<eventSourceRef, retryTimeoutRef, pendingTimeouts, hidden, mounted>>
    /\ UNCHANGED busVars
    /\ UNCHANGED storeVars
    /\ UNCHANGED fnVars

\* The 'inbox-event' listener of a channel runs.
InboxEventArrives(c) ==
    /\ chan[c] = "open"
    /\ revalidatorState = "idle"
    /\ revalidatorState' = Revalidate(revalidatorState)
    /\ UNCHANGED <<eventSourceRef, chan, retryCountRef, retryTimeoutRef, pendingTimeouts,
                   fallbackIntervalRef, connectionState, hidden, mounted, ackedAfter>>
    /\ UNCHANGED busVars
    /\ UNCHANGED storeVars
    /\ UNCHANGED fnVars

\* An onerror that arms the retry timer and leaves the EventSource open.
TransportErrorKeepChannel(c) ==
    /\ c \in Live
    /\ LET delay == INITIAL_RETRY_DELAY * Pow2(retryCountRef)
       IN  /\ retryTimeoutRef' = delay
           /\ pendingTimeouts' = pendingTimeouts \cup {delay}
    /\ connectionState' = "reconnecting"
    /\ retryCountRef' = retryCountRef + 1
    /\ UNCHANGED <<chan, eventSourceRef>>
    /\ UNCHANGED <<fallbackIntervalRef, hidden, mounted, revalidatorState, ackedAfter>>
    /\ UNCHANGED busVars
    /\ UNCHANGED storeVars
    /\ UNCHANGED fnVars

\* onerror of a channel: close it, drop the ref, arm the retry timer.
TransportError(c) ==
    /\ c \in Live
    /\ LET delay == INITIAL_RETRY_DELAY * Pow2(retryCountRef)
       IN  /\ retryTimeoutRef' = delay
           /\ pendingTimeouts' = pendingTimeouts \cup {delay}
    /\ connectionState' = "reconnecting"
    /\ chan' = [chan EXCEPT ![c] = "closed"]
    /\ eventSourceRef' = NoChannel
    /\ retryCountRef' = retryCountRef + 1
    /\ UNCHANGED <<fallbackIntervalRef, hidden, mounted, revalidatorState, ackedAfter>>
    /\ UNCHANGED busVars
    /\ UNCHANGED storeVars
    /\ UNCHANGED fnVars

\* An armed setTimeout fires: connect().
RetryTimerFires(delay) ==
    /\ delay \in pendingTimeouts
    /\ CanConnect
    /\ LET r == connect(retryCountRef)
       IN  /\ eventSourceRef' = r.eventSourceRef
           /\ chan' = r.chan
           /\ pendingTimeouts' = r.pendingTimeouts \ {delay}
           /\ fallbackIntervalRef' = r.fallbackIntervalRef
           /\ connectionState' = r.connectionState
    /\ retryTimeoutRef' = NoTimer
    /\ UNCHANGED <<retryCountRef, hidden, mounted, revalidatorState, ackedAfter>>
    /\ UNCHANGED busVars
    /\ UNCHANGED storeVars
    /\ UNCHANGED fnVars

\* The polling interval fires.
PollTick ==
    /\ fallbackIntervalRef
    /\ revalidatorState = "idle"
    /\ revalidatorState' = Revalidate(revalidatorState)
    /\ UNCHANGED <<eventSourceRef, chan, retryCountRef, retryTimeoutRef, pendingTimeouts,
                   fallbackIntervalRef, connectionState, hidden, mounted, ackedAfter>>
    /\ UNCHANGED busVars
    /\ UNCHANGED storeVars
    /\ UNCHANGED fnVars

\* The revalidation finishes.
RevalidateDone ==
    /\ revalidatorState = "loading"
    /\ revalidatorState' = "idle"
    /\ UNCHANGED <<eventSourceRef, chan, retryCountRef, retryTimeoutRef, pendingTimeouts,
                   fallbackIntervalRef, connectionState, hidden, mounted, ackedAfter>>
    /\ UNCHANGED busVars
    /\ UNCHANGED storeVars
    /\ UNCHANGED fnVars

\* visibilitychange with document.hidden: disconnect().
Hide ==
    /\ ~hidden
    /\ hidden' = TRUE
    /\ IF mounted
       THEN RunDisconnect
       ELSE UNCHANGED <<eventSourceRef, chan, pendingTimeouts, fallbackIntervalRef,
                        connectionState, retryTimeoutRef, retryCountRef>>
    /\ UNCHANGED <<mounted, revalidatorState, ackedAfter>>
    /\ UNCHANGED busVars
    /\ UNCHANGED storeVars
    /\ UNCHANGED fnVars

\* visibilitychange with the tab visible: reset the retry count, connect().
Show ==
    /\ hidden
    /\ hidden' = FALSE
    /\ IF mounted
       THEN RunConnect(0)
       ELSE UNCHANGED <<eventSourceRef, chan, pendingTimeouts, fallbackIntervalRef,
                        connectionState, retryTimeoutRef, retryCountRef>>
    /\ UNCHANGED <<mounted, revalidatorState, ackedAfter>>
    /\ UNCHANGED busVars
    /\ UNCHANGED storeVars
    /\ UNCHANGED fnVars

ClientSteps ==
    \/ Mount
    \/ Unmount
    \/ \E c \in Channels : ServerAck(c)
    \/ \E c \in Channels : InboxEventArrives(c)
    \/ \E c \in Channels : TransportError(c)
    \/ \E delay \in Delays : RetryTimerFires(delay)
    \/ PollTick
    \/ RevalidateDone
    \/ Hide
    \/ Show

(***************************************************************************)
(* Payloads.                                                               *)
(***************************************************************************)
\* A request as the relay sends it: the body is signed with the secret.
Signed(payload) == [payload EXCEPT !.signature = sign(RawBody(payload), WEBHOOK_SECRET)]

MailTo(toAddress, messageId, from, subject, headers) ==
    Signed([kind |-> "webhook", method |-> "POST", signature |-> NoSignature,
            json |-> TRUE, toPresent |-> TRUE,
            to |-> toAddress, messageId |-> messageId, from |-> from,
            subject |-> subject, text |-> <<"t">> \o messageId, headers |-> headers])

Mail(to, messageId, from, subject, headers) ==
    MailTo(to \o <<"@">> \o appDomain, messageId, from, subject, headers)

Form(inboxId, subject, inReplyToId) ==
    [kind |-> "send", inboxId |-> inboxId, to |-> <<"p@q">>, subject |-> subject,
     bodyText |-> <<"b">>, inReplyToId |-> inReplyToId]

View(inboxId, threadId) == [kind |-> "view", inboxId |-> inboxId, threadId |-> threadId]

NoHeaders == [date |-> <<"d">>]
InReplyTo(ids) == ("In-Reply-To" :> ids)
References(ids) == [references |-> ids]

IdA == <<"<","a",">">>
IdB == <<"<","b",">">>
IdC == <<"<","c",">">>
IdZ == <<"<","z",">">>
Hello == <<"H","e","l","l","o">>
ReHello == <<"R","e",":"," ","H","e","l","l","o">>
Bye == <<"B","y","e">>

Day == SecondsPerDay * TenthsPerSecond

(***************************************************************************)
(* Specifications.                                                         *)
(***************************************************************************)
(***************************************************************************)
(* Part H.  Calls of the pure threading utilities.                         *)
(*                                                                         *)
(* givenSubject and givenHeaders are the arguments a caller holds;         *)
(* normalizations is the                                                   *)
(* list of the values normalizeSubject returned, each call being made on   *)
(* the value the call before it returned; extracted is the list of the     *)
(* values extractMessageIds returned for givenHeaders.                     *)
(***************************************************************************)
MaxSubjectLen == 5
MaxCalls == 2
MaxIds == 3

InitFn ==
    /\ givenSubject = <<>>
    /\ normalizations = <<>>
    /\ givenHeaders = NoHeaders
    /\ extracted = <<>>

\* normalizeSubject(subject), then normalizeSubject of what it returned.
CallNormalize ==
    /\ Len(normalizations) < MaxCalls
    /\ normalizations' =
          Append(normalizations,
                 normalizeSubject(IF normalizations = <<>> THEN givenSubject
                                  ELSE normalizations[Len(normalizations)]))
    /\ UNCHANGED <<givenSubject, givenHeaders, extracted>>
    /\ UNCHANGED busVars
    /\ UNCHANGED storeVars
    /\ UNCHANGED clientVars

\* extractMessageIds(headers)
CallExtract ==
    /\ extracted = <<>>
    /\ extracted' = <<extractMessageIds(givenHeaders)>>
    /\ UNCHANGED <<givenSubject, normalizations, givenHeaders>>
    /\ UNCHANGED busVars
    /\ UNCHANGED storeVars
    /\ UNCHANGED clientVars

\* A second caller holds the same header map under another spelling of its
\* keys and calls extractMessageIds(headers) on it.
CallExtractRespelled(respelled) ==
    /\ Len(extracted) = 1
    /\ givenHeaders' = respelled
    /\ extracted' = Append(extracted, extractMessageIds(respelled))
    /\ UNCHANGED <<givenSubject, normalizations>>
    /\ UNCHANGED busVars
    /\ UNCHANGED storeVars
    /\ UNCHANGED clientVars

vars == <<subscribers, members, heartbeatTimer, ctrl, subInbox, subSet,
          hooks, received, busThrew, nextEvent, beats,
          threads, emails, sentEmails, now, ticks, req, started,
          eventSourceRef, chan, retryCountRef, retryTimeoutRef, pendingTimeouts,
          fallbackIntervalRef, connectionState, hidden, mounted,
          revalidatorState, ackedAfter,
          givenSubject, normalizations, givenHeaders, extracted>>

Init == InitBus /\ InitStore /\ InitClient /\ InitFn

\* normalizeSubject called on every short subject over the characters its
\* pattern distinguishes, and on two long ones.
SubjectChars == {"r", "R", ":", " ", "[", "1", "]", "x"}

ShortSubjects == UNION {[1..n -> SubjectChars] : n \in 0..MaxSubjectLen}

CountedSubject ==
    <<" ","R","E",":"," ","F","w","d","[","2","]",":"," "," ","H","i"," ">>

ChainedSubject == <<"R","e",":","A","W",":","t","r",":"," ","r","e",":","x">>

Subjects == ShortSubjects \cup {CountedSubject, ChainedSubject}

InitNormalize ==
    /\ InitBus /\ InitStore /\ InitClient
    /\ givenSubject \in Subjects
    /\ normalizations = <<>>
    /\ givenHeaders = NoHeaders
    /\ extracted = <<>>

NextNormalize == CallNormalize

SpecNormalize == InitNormalize /\ [][NextNormalize]_vars

\* extractMessageIds called on header maps whose References and In-Reply-To
\* values list up to MaxIds ids, under either spelling of the header names.
RECURSIVE Join(_)
Join(ids) ==
    IF ids = <<>> THEN <<>>
    ELSE IF Len(ids) = 1 THEN ids[1]
    ELSE ids[1] \o <<" ">> \o Join(Tail(ids))

IdLists == UNION {[1..n -> {IdA, IdB}] : n \in 0..MaxIds}

HeaderMaps ==
    {NoHeaders}
    \cup {References(Join(refs)) : refs \in IdLists \ {<<>>}}
    \cup {InReplyTo(Join(reply)) : reply \in IdLists \ {<<>>}}
    \cup {References(Join(refs)) @@ InReplyTo(reply) :
             refs \in IdLists,
             reply \in {IdA, IdB, IdC, <<"x">> \o IdA \o <<"<",">">> \o IdB}}
    \cup {("References" :> Join(refs)) @@ ("in-reply-to" :> id) :
             refs \in IdLists \ {<<>>}, id \in {IdA, IdB, IdC}}
    \cup {References(Join(refs)) @@ ("References" :> IdC) :
             refs \in IdLists}

InitExtract ==
    /\ InitBus /\ InitStore /\ InitClient
    /\ givenSubject = <<>>
    /\ normalizations = <<>>
    /\ givenHeaders \in HeaderMaps
    /\ extracted = <<>>

NextExtract == CallExtract

SpecExtract == InitExtract /\ [][NextExtract]_vars

\* extractMessageIds called on one header map under two spellings of the
\* names of its References and In-Reply-To headers.
ReferencesSpellings == {"references", "References", "REFERENCES"}
InReplyToSpellings == {"in-reply-to", "In-Reply-To", "In-reply-to"}

Respell(name, refName, replyName) ==
    IF name \in ReferencesSpellings THEN refName
    ELSE IF name \in InReplyToSpellings THEN replyName
    ELSE name

Respelled(map, refName, replyName) ==
    [name \in {Respell(n, refName, replyName) : n \in DOMAIN map} |->
        map[CHOOSE n \in DOMAIN map : Respell(n, refName, replyName) = name]]

\* The maps that name each of the two headers at most once.
SingleSpelled ==
    {map \in HeaderMaps :
        /\ Cardinality(DOMAIN map \cap ReferencesSpellings) <= 1
        /\ Cardinality(DOMAIN map \cap InReplyToSpellings) <= 1}

InitRespell ==
    /\ InitBus /\ InitStore /\ InitClient
    /\ givenSubject = <<>>
    /\ normalizations = <<>>
    /\ givenHeaders \in SingleSpelled
    /\ extracted = <<>>

NextRespell ==
    \/ CallExtract
    \/ \E refName \in ReferencesSpellings, replyName \in InReplyToSpellings :
          CallExtractRespelled(Respelled(givenHeaders, refName, replyName))

SpecRespell == InitRespell /\ [][NextRespell]_vars

\* The Event Bus and the SSE loader driving it.
NextBus == BusSteps

SpecBus == Init /\ [][NextBus]_vars

\* Sequential traffic of one mailbox with some mail for the other: received
\* mail with and without references, a fresh sent mail and a sent reply.
\* Between requests the clock may move by the length of the subject window,
\* during a request by 0.6 s.
ThreadPool ==
    { Mail(<<"a">>, IdA, "x@y", Hello, NoHeaders),
      Mail(<<"a">>, IdB, "x@y", Bye, NoHeaders),
      Mail(<<"a">>, IdC, "z@y", Bye, References(IdZ \o <<" ">> \o IdA)),
      Mail(<<"a">>, IdC, "z@y", Bye, InReplyTo(SentMessageId(1))),
      Mail(<<"b">>, IdA, "x@y", Bye, NoHeaders) }

ThreadForms == { Form("inboxA", Hello, Null), Form("inboxA", ReHello, 1) }

ShortJumps == {6}
WindowJumps == {SUBJECT_MATCH_DAYS * Day}

NextThread ==
    \/ WebhookSteps(ThreadPool, 1, MaxRequests)
    \/ SendSteps(ThreadForms, 1, MaxRequests)
    \/ Tick(ShortJumps)
    \/ IdleTick(WindowJumps)

SpecThread == Init /\ [][NextThread]_vars

\* The end-to-end scenario: four mails for one mailbox, served one at a
\* time in any order, with two or ten days between requests.
ScenarioPool ==
    { Mail(<<"a">>, IdA, "x@y", Hello, NoHeaders),
      Mail(<<"a">>, IdB, "x@y", Bye, References(IdA)),
      Mail(<<"a">>, IdC, "x@y", ReHello, NoHeaders),
      Mail(<<"a">>, IdZ, "x@y", Hello, NoHeaders) }

ScenarioJumps == {2 * Day, 10 * Day}

NextScenario ==
    \/ WebhookSteps(ScenarioPool, 1, Cardinality(ScenarioPool))
    \/ Tick(ShortJumps)
    \/ IdleTick(ScenarioJumps)

SpecScenario == Init /\ [][NextScenario]_vars

\* Concurrent ingestion: up to MaxInFlight webhook requests interleave at
\* their awaits while the clock moves by 0.6 s.
RacePool ==
    { Mail(<<"a">>, IdA, "x@y", Hello, NoHeaders),
      Mail(<<"a">>, IdB, "z@y", ReHello, NoHeaders) }

NextRace ==
    \/ WebhookSteps(RacePool, MaxInFlight, MaxRequests)
    \/ Tick(ShortJumps)

SpecRace == Init /\ [][NextRace]_vars

\* Ingestion while browsers are connected to the streams of the mailboxes.
IngestPool ==
    { Mail(<<"a">>, IdA, "x@y", Hello, NoHeaders),
      Mail(<<"a">>, IdB, "z@y", ReHello, NoHeaders),
      Mail(<<"b">>, IdC, "x@y", Bye, NoHeaders),
      Mail(<<"q">>, IdZ, "x@y", Hello, NoHeaders) }

\* Requests the gateway must turn away, beside two it accepts.
GateMail == Mail(<<"a">>, IdC, "x@y", Hello, NoHeaders)

GatePool ==
    { Mail(<<"a">>, IdA, "x@y", Hello, NoHeaders),
      Mail(<<"b">>, IdB, "z@y", Bye, NoHeaders),
      [GateMail EXCEPT !.signature = NoSignature],
      [GateMail EXCEPT !.subject = Bye],
      [GateMail EXCEPT !.signature = sign(RawBody(GateMail), "other")],
      [GateMail EXCEPT !.method = "GET"],
      Signed([GateMail EXCEPT !.json = FALSE]),
      Signed([GateMail EXCEPT !.toPresent = FALSE]),
      MailTo(<<"a","@","e","v","i","l",".","d","e","v">>, IdC, "x@y", Hello, NoHeaders),
      MailTo(<<"a">>, IdC, "x@y", Hello, NoHeaders),
      MailTo(<<"a","@","x","@">> \o appDomain, IdC, "x@y", Hello, NoHeaders),
      Mail(<<"q">>, IdC, "x@y", Hello, NoHeaders) }

NextGate ==
    \/ WebhookSteps(GatePool, 1, MaxRequests)
    \/ \E c \in Conns, i \in Inboxes : Connect(c, i)
    \/ \E c \in Conns : Cancel(c)

SpecGate == Init /\ [][NextGate]_vars

NextIngest ==
    \/ WebhookSteps(IngestPool, 1, MaxRequests)
    \/ \E c \in Conns, i \in Inboxes : Connect(c, i)
    \/ \E c \in Conns : Cancel(c)

SpecIngest == Init /\ [][NextIngest]_vars

\* Mail without a subject or with a subject made of prefixes only, served
\* one request at a time.
NoSubject == <<>>
OnlyReply == <<"R","e",":"," ">>
OnlyPrefixes == <<"F","w","d",":","R","E","[","2","]",":">>

EmptyPool ==
    { Mail(<<"a">>, IdA, "x@y", NoSubject, NoHeaders),
      Mail(<<"a">>, IdB, "x@y", OnlyReply, NoHeaders),
      Mail(<<"a">>, IdC, "z@y", OnlyPrefixes, NoHeaders),
      Mail(<<"a">>, IdZ, "z@y", NoSubject, References(IdA)),
      Mail(<<"a">>, IdZ, "x@y", Hello, NoHeaders) }

NextEmpty ==
    \/ WebhookSteps(EmptyPool, 1, MaxRequests)
    \/ Tick(ShortJumps)

SpecEmpty == Init /\ [][NextEmpty]_vars

\* Ingestion, one request at a time, with a database that may reject the
\* insert of the Message row.
NextFail ==
    \/ WebhookSteps(RacePool, 1, MaxRequests)
    \/ \E r \in Reqs : WebhookInsertFails(r)
    \/ Tick(ShortJumps)

SpecFail == Init /\ [][NextFail]_vars

\* The streaming client on its own.
NextClient == ClientSteps

SpecClient == Init /\ [][NextClient]_vars

\* Mixed traffic on one conversation: received mail, a sent reply and the
\* thread view, up to MaxInFlight requests interleaving at their awaits.
MixedPool ==
    { Mail(<<"a">>, IdA, "x@y", Hello, NoHeaders),
      Mail(<<"a">>, IdB, "z@y", ReHello, NoHeaders) }

MixedForms == { Form("inboxA", Hello, Null), Form("inboxA", ReHello, 1) }

MixedViews == { View("inboxA", 1), View("inboxB", 1) }

NextMixed ==
    \/ WebhookSteps(MixedPool, MaxInFlight, MaxRequests + 1)
    \/ SendSteps(MixedForms, MaxInFlight, MaxRequests + 1)
    \/ ViewSteps(MixedViews, MaxInFlight, MaxRequests + 1)

SpecMixed == Init /\ [][NextMixed]_vars

(***************************************************************************)
(* Properties of the Event Bus.                                            *)
(***************************************************************************)
HasFrame(c, f) == \E k \in 1..Len(received[c]) : received[c][k] = f

CountFrame(log, f) == Cardinality({k \in 1..Len(log) : log[k] = f})

\* C2: in one publish call every handle of the mailbox whose write throws is
\* removed from the registry and every other handle of that mailbox gets the
\* event frame appended in that same call, wherever the failing handle sits
\* in the Set.
C2_FailingHandleIsolated ==
    [][\A i \in Inboxes : Publish(i) =>
          \A c \in Range(SubsOf(subscribers, members, i)) :
             IF ctrl[c] = "open"
             THEN received'[c] = Append(received[c], EventFrame(Event(nextEvent, i)))
             ELSE /\ c \notin Registered(subscribers', members')
                  /\ received'[c] = received[c]]_vars

\* A handle that failed sits before a handle of the same mailbox that got the
\* event: the earlier one was dropped by the publish (no callback of its own
\* ran, no heartbeat has swept), the later one holds the frame and stays.
C2_Witness ==
    \E c1, c2 \in Conns :
       /\ c1 < c2
       /\ subInbox[c1] = subInbox[c2] /\ subSet[c1] = subSet[c2]
       /\ ctrl[c1] = "closed" /\ hooks[c1] = {} /\ beats = 0
       /\ c1 \notin Registered(subscribers, members)
       /\ c2 \in Registered(subscribers, members)
       /\ \E e \in Events : HasFrame(c2, EventFrame(e)) /\ ~HasFrame(c1, EventFrame(e))

\* C3: when the unsubscribe closure of a connection has run (stream cancel or
\* request abort), the connection is in no Set reachable through the Map, and
\* if it was the only registered connection the heartbeat timer is cleared.
C3_UnsubscribeDeregisters ==
    [][\A c \in Conns : (Cancel(c) \/ Abort(c)) =>
          /\ c \notin Registered(subscribers', members')
          /\ Registered(subscribers, members) = {c} => ~heartbeatTimer']_vars

\* The last registered connection has unsubscribed: nobody is registered and
\* the timer that its subscribe armed is off.
C3_Witness ==
    \E c \in Conns :
       /\ hooks[c] # {}
       /\ \A d \in Conns \ {c} : ctrl[d] = "idle"
       /\ nextEvent = 1 /\ beats = 0
       /\ Registered(subscribers, members) = {}
       /\ ~heartbeatTimer

\* C4: the registry is never empty while the heartbeat timer is armed.
C4_HeartbeatStopsWhenEmpty ==
    Registered(subscribers, members) = {} => ~heartbeatTimer

\* C5: an event frame is written to a connection at most once, and only
\* during the publish call of that very event, to a connection that is in
\* the Set of the published mailbox when the call starts; no later step
\* (subscribe, heartbeat, another publish) ever adds it.
C5_AtMostOnceNoReplay ==
    [][\A c \in Conns : \A e \in Events :
          CountFrame(received'[c], EventFrame(e)) # CountFrame(received[c], EventFrame(e)) =>
             /\ CountFrame(received[c], EventFrame(e)) = 0
             /\ CountFrame(received'[c], EventFrame(e)) = 1
             /\ e.n = nextEvent
             /\ Publish(e.inbox)
             /\ c \in Range(SubsOf(subscribers, members, e.inbox))]_vars

\* An event reached one connection, and a connection that is registered for
\* the same mailbox and has been writable all along does not hold it: it
\* subscribed after the publish.
C5_Witness ==
    \E c1, c2 \in Conns : \E e \in Events :
       /\ HasFrame(c1, EventFrame(e))
       /\ subInbox[c2] = e.inbox
       /\ ctrl[c2] = "open"
       /\ c2 \in Registered(subscribers, members)
       /\ ~HasFrame(c2, EventFrame(e))

\* C6: publishing to a mailbox with zero subscribers lets no exception
\* escape and changes neither the Map, nor any Set, nor any connection's
\* frames, nor the timer.
C6_PublishNoSubscribersNoop ==
    [][\A i \in Inboxes :
          (Publish(i) /\ SubsOf(subscribers, members, i) = <<>>) =>
             (UNCHANGED busState /\ ~busThrew')]_vars

\* All events were published, every connection that exists has always been
\* writable and registered, and none holds an event frame: each publish went
\* to a mailbox without subscribers while the bus held state to disturb.
C6_Witness ==
    /\ nextEvent = MaxEvents + 1
    /\ heartbeatTimer
    /\ \E c \in Conns : c \in Registered(subscribers, members)
    /\ \A c \in Conns :
          /\ ctrl[c] # "closed" /\ hooks[c] = {}
          /\ \A e \in Events : ~HasFrame(c, EventFrame(e))

(***************************************************************************)
(* Properties of ingestion and threading.                                  *)
(***************************************************************************)
\* C1: when the webhook stores the Message row and answers 200, it publishes
\* a Notification Event for the destination mailbox in that same step: every
\* open stream of that mailbox gets an event frame of that mailbox appended.
C1_IngestPublishes ==
    [][\A r \in Reqs : WebhookInsert(r) =>
          \A c \in Range(SubsOf(subscribers, members, req[r].inboxId)) :
             ctrl[c] = "open" =>
                \E e \in Events :
                   /\ e.inbox = req[r].inboxId
                   /\ received'[c] = Append(received[c], EventFrame(e))]_vars

DaysBetween(a, b) == (b - a) \div SecondsPerDay

\* C7: in a quiet moment, when the mailbox holds A ("Hello", no references)
\* alone, its Thread T1 has messageCount 1 and unreadCount 1; with B
\* (references A) next, B is in T1 and the count is 2; with C ("Re: Hello",
\* no references, received 2 days after A) next, C is in T1 and the count is
\* 3; with D ("Hello", received 10 days after C) next, D is in a second
\* Thread of its own and T1 still counts 3.
C7_EndToEndScenario ==
    InFlight = {} =>
       LET n == Len(emails)
           id(k) == emails[k].messageId
           at(k) == emails[k].receivedAt
           T1 == emails[1].threadId
           isAB == n >= 2 /\ id(1) = IdA /\ id(2) = IdB
           isABC == isAB /\ n >= 3 /\ id(3) = IdC /\ DaysBetween(at(1), at(3)) = 2
           isABCD == isABC /\ n >= 4 /\ id(4) = IdZ /\ DaysBetween(at(3), at(4)) = 10
       IN  /\ (n = 1 /\ id(1) = IdA) =>
                 /\ T1 \in 1..Len(threads)
                 /\ threads[T1].messageCount = 1
                 /\ threads[T1].unreadCount = 1
           /\ isAB => /\ emails[2].threadId = T1
                      /\ n = 2 => threads[T1].messageCount = 2
           /\ isABC => /\ emails[3].threadId = T1
                       /\ n = 3 => threads[T1].messageCount = 3
           /\ isABCD => /\ emails[4].threadId # T1
                        /\ Len(threads) = 2
                        /\ threads[emails[4].threadId].messageCount = 1
                        /\ threads[T1].messageCount = 3

C7_Witness ==
    /\ InFlight = {}
    /\ Len(emails) = 4
    /\ <<emails[1].messageId, emails[2].messageId, emails[3].messageId,
         emails[4].messageId>> = <<IdA, IdB, IdC, IdZ>>
    /\ DaysBetween(emails[1].receivedAt, emails[3].receivedAt) = 2
    /\ DaysBetween(emails[3].receivedAt, emails[4].receivedAt) = 10
    /\ emails[3].threadId = emails[1].threadId
    /\ emails[4].threadId # emails[1].threadId

\* The Threads of the stored Messages and Sent Messages of a mailbox that
\* carry an identifier as their own.
ThreadsCarrying(inboxId, refId) ==
    {emails[k].threadId : k \in {j \in 1..Len(emails) :
        /\ emails[j].inboxId = inboxId
        /\ emails[j].messageId = refId
        /\ emails[j].threadId # Null}}
    \cup
    {sentEmails[k].threadId : k \in {j \in 1..Len(sentEmails) :
        /\ sentEmails[j].inboxId = inboxId
        /\ sentEmails[j].messageId = refId
        /\ sentEmails[j].threadId # Null}}

\* C8: when the webhook resolves a message and some stored Message or Sent
\* Message of the same mailbox carries one of its referenced identifiers and
\* has a Thread, the result is a Thread of the first such identifier in
\* reference order, whatever Thread matches by subject.
C8_ReferenceBeatsSubject ==
    [][\A r \in Reqs : WebhookFind(r) =>
          LET ids == extractMessageIds(req[r].p.headers)
              hits == {k \in 1..Len(ids) : ThreadsCarrying(req[r].inboxId, ids[k]) # {}}
          IN  hits # {} =>
                 \E k \in hits :
                    /\ \A j \in hits : k <= j
                    /\ req'[r].threadId \in ThreadsCarrying(req[r].inboxId, ids[k])]_vars

\* A request just resolved through a Sent Message to one Thread while another
\* Thread of the mailbox matches its subject within the window.
C8_Witness ==
    \E r \in Reqs :
       /\ req[r].pc = "stamp"
       /\ req[r].threadId # Null
       /\ \E k \in 1..Len(sentEmails) :
             /\ sentEmails[k].threadId = req[r].threadId
             /\ \E j \in 1..Len(extractMessageIds(req[r].p.headers)) :
                   extractMessageIds(req[r].p.headers)[j] = sentEmails[k].messageId
       /\ \E t \in SubjectCandidates(req[r].inboxId, normalizeSubject(req[r].p.subject),
                                     req[r].cutoff) : t # req[r].threadId

\* C9: a message without reference match and with a non-empty normalized
\* subject, whose timestamp is exactly 7 days after the latest activity of a
\* Thread with that subject in its mailbox, is resolved to a Thread with
\* that subject (that one, or one more recently active); when its timestamp
\* is 7 days and 1 second after, it is not resolved to that Thread.
C9_SubjectWindowBoundary ==
    [][\A r \in Reqs : WebhookStamp(r) =>
          LET rq == req[r]
              ts == req'[r].timestamp
              normalized == normalizeSubject(rq.p.subject)
              same == {t \in 1..Len(threads) :
                          /\ threads[t].inboxId = rq.inboxId
                          /\ threads[t].normalizedSubject = normalized}
              noRef == MatchByReferences(rq.inboxId, extractMessageIds(rq.p.headers)) = Null
          IN  (noRef /\ normalized # <<>>) =>
                 \A t \in same :
                    /\ ts - threads[t].latestMessageAt = SUBJECT_MATCH_DAYS * SecondsPerDay
                          => /\ rq.threadId \in same
                             /\ threads[rq.threadId].latestMessageAt >= threads[t].latestMessageAt
                    /\ ts - threads[t].latestMessageAt = SUBJECT_MATCH_DAYS * SecondsPerDay + 1
                          => rq.threadId # t]_vars

\* C10: when updateThreadStats writes for a message whose timestamp is older
\* than the latest activity of the row it read, messageCount becomes the
\* count it read plus one (unreadCount too when incrementUnread is set) and
\* the latest-activity timestamp, preview and message id keep the values
\* the table holds.
C10_OlderMessageKeepsLatest ==
    [][\A r \in Reqs :
          (UpdateWrite(r) /\ req[r].timestamp < req[r].snap.latestMessageAt) =>
             LET t == req[r].threadId
             IN  /\ threads'[t].messageCount = req[r].snap.messageCount + 1
                 /\ OptsOf(req[r]).incrementUnread =>
                       threads'[t].unreadCount = req[r].snap.unreadCount + 1
                 /\ threads'[t].latestMessageAt = threads[t].latestMessageAt
                 /\ threads'[t].latestPreview = threads[t].latestPreview
                 /\ threads'[t].latestMessageId = threads[t].latestMessageId]_vars

\* A webhook request has just written the stats of a Thread whose latest
\* activity, as it read it, was later than its own timestamp.
C10_Witness ==
    \E r \in Reqs :
       /\ req[r].pc = "insert"
       /\ req[r].snap # NoThread
       /\ req[r].timestamp < req[r].snap.latestMessageAt
       /\ threads[req[r].threadId].messageCount >= req[r].snap.messageCount + 1

\* C11: no step changes the stored latest-activity timestamp of a Thread to
\* an earlier one, whatever the interleaving of the requests that update it.
C11_LatestActivityMonotonic ==
    [][\A t \in 1..Len(threads) :
          threads'[t].latestMessageAt >= threads[t].latestMessageAt]_vars

\* C12: every Thread has unreadCount <= messageCount, in every state reached
\* by any interleaving of thread creation, stats updates for received and
\* sent messages, and unread recalculation.
C12_UnreadAtMostCount ==
    \A t \in 1..Len(threads) : threads[t].unreadCount <= threads[t].messageCount

(***************************************************************************)
(* Properties of the streaming client.                                     *)
(***************************************************************************)
\* C13: the first, second and third consecutive transport error arm a retry
\* after d, 2d and 4d; when each of these timers fires the client makes a
\* reconnect attempt (a new channel, connecting); polling is switched on
\* only by a fourth consecutive transport error.
C13_BackoffThenPolling ==
    [][/\ \A c \in Channels :
             (TransportError(c) /\ retryCountRef < MAX_RETRIES) =>
                retryTimeoutRef' = CASE retryCountRef = 0 -> INITIAL_RETRY_DELAY
                                     [] retryCountRef = 1 -> 2 * INITIAL_RETRY_DELAY
                                     [] OTHER -> 4 * INITIAL_RETRY_DELAY
       /\ \A delay \in Delays :
             (RetryTimerFires(delay) /\ delay <= 4 * INITIAL_RETRY_DELAY) =>
                /\ eventSourceRef' \in Channels
                /\ chan'[eventSourceRef'] = "connecting"
       /\ (fallbackIntervalRef' /\ ~fallbackIntervalRef) =>
             \E c \in Channels : TransportError(c) /\ retryCountRef = MAX_RETRIES]_vars

\* C14 as stated: every connected acknowledgement that follows one or more
\* transport errors resets the retry counter to 0 and triggers a data
\* refresh in that same step.
C14_AckAlwaysRefreshes ==
    [][\A c \in Channels :
          (ServerAck(c) /\ retryCountRef >= 1) =>
             /\ retryCountRef' = 0
             /\ revalidatorState = "idle"
             /\ revalidatorState' = "loading"]_vars

\* C14, amended: every connected acknowledgement that follows one or more
\* transport errors resets the retry counter to 0, so that a transport error
\* on the acknowledged channel is retried after the base delay; it triggers
\* a data refresh in that same step unless a refresh is already in
\* progress, so that a refresh is in progress right after it either way.
C14_AckResetsAndRefreshes ==
    [][\A c \in Channels :
          /\ (ServerAck(c) /\ retryCountRef >= 1) =>
                /\ retryCountRef' = 0
                /\ revalidatorState' = "loading"
          /\ (TransportError(c) /\ chan[c] = "open") =>
                retryTimeoutRef' = INITIAL_RETRY_DELAY]_vars

\* The client has just been acknowledged after transport errors: counter
\* 0, refresh in progress.
C14_Witness ==
    /\ ackedAfter >= 1
    /\ connectionState = "connected"
    /\ retryCountRef = 0
    /\ revalidatorState = "loading"

\* C15: whenever the tab is hidden the client has no open or connecting
\* channel, no armed retry timer and no polling interval; and the step that
\* brings a mounted client back to the foreground leaves it with retry
\* counter 0 and a new channel that is connecting.
C15_HiddenIsQuiet ==
    [][/\ hidden' => /\ \A c \in Channels : chan'[c] \notin {"connecting", "open"}
                     /\ pendingTimeouts' = {}
                     /\ retryTimeoutRef' = NoTimer
                     /\ ~fallbackIntervalRef'
       /\ (Show /\ mounted) =>
             /\ retryCountRef' = 0
             /\ eventSourceRef' \in Channels
             /\ chan'[eventSourceRef'] = "connecting"]_vars

\* A mounted client lost the foreground while a retry was pending.
C15_Witness ==
    /\ hidden
    /\ mounted
    /\ retryCountRef >= 1
    /\ connectionState = "disconnected"

\* C16: on every stream the connected frame is the first frame and occurs
\* exactly once; no event or heartbeat frame precedes it.
C16_ConnectedFrameFirstOnce ==
    \A c \in Conns :
       received[c] # <<>> =>
          /\ received[c][1] = ConnectedFrame
          /\ CountFrame(received[c], ConnectedFrame) = 1

\* A stream that carries further frames after its connected frame.
C16_Witness ==
    \E c \in Conns :
       /\ Len(received[c]) >= 3
       /\ received[c][1] = ConnectedFrame
       /\ \E k \in 2..Len(received[c]) : received[c][k] = HeartbeatFrame
       /\ \E k \in 2..Len(received[c]) : received[c][k] \notin {HeartbeatFrame, ConnectedFrame}

\* C17: a POST whose signature header is missing, or differs from the
\* signature of its exact raw body under the shared secret, is answered 401 at
\* once: the request is finished in the step that receives it, and that step
\* changes no Thread, no Message and nothing of the Event Bus.
Unauthenticated(payload) ==
    \/ payload.signature = NoSignature
    \/ payload.signature # sign(RawBody(payload), WEBHOOK_SECRET)

C17_BadSignatureStops ==
    [][\A r \in Reqs :
          ( /\ req'[r].kind = "webhook"
            /\ req'[r].p.method = "POST"
            /\ Unauthenticated(req'[r].p) )
          => /\ req'[r].pc = "done"
             /\ req'[r].status = 401
             /\ req'[r].inboxId = IdleReq.inboxId
             /\ req'[r] # req[r] =>
                   /\ UNCHANGED <<threads, emails, sentEmails>>
                   /\ UNCHANGED busVars]_vars

C17_Witness ==
    \E r \in Reqs :
       /\ req[r].kind = "webhook"
       /\ req[r].p.method = "POST"
       /\ req[r].p.signature # NoSignature
       /\ req[r].p.signature # sign(RawBody(req[r].p), WEBHOOK_SECRET)
       /\ req[r].status = 401
       /\ \E c \in Conns : received[c] # <<>>

\* C18: an authenticated POST whose body is malformed, whose recipient is
\* malformed (absent, or not one local part, one "@" and a domain), or whose
\* recipient lies outside the serving domain is answered 400; one whose local
\* part names no Mailbox is answered 404; either way the request ends in the
\* step that receives it and no Thread or Message changes.
AtSigns(address) == {k \in 1..Len(address) : address[k] = "@"}

MalformedRecipient(payload) ==
    \/ ~payload.toPresent
    \/ Cardinality(AtSigns(payload.to)) # 1
    \/ Head(payload.to) = "@"

OutsideDomain(payload) ==
    ~EndsWith(toLowerCase(payload.to), <<"@">> \o appDomain)

Rejected400(payload) ==
    \/ ~payload.json
    \/ MalformedRecipient(payload)
    \/ OutsideDomain(payload)

C18_BadRequestStops ==
    [][\A r \in Reqs :
          ( /\ req'[r].kind = "webhook"
            /\ req'[r] # req[r]
            /\ started' # started
            /\ req'[r].p.method = "POST"
            /\ ~Unauthenticated(req'[r].p) )
          => /\ Rejected400(req'[r].p) =>
                   /\ req'[r].pc = "done"
                   /\ req'[r].status = 400
                   /\ UNCHANGED <<threads, emails, sentEmails>>
             /\ ( /\ ~Rejected400(req'[r].p)
                  /\ LocalPartOf(toLowerCase(req'[r].p.to)) \notin DOMAIN InboxByLocalPart )
                => /\ req'[r].pc = "done"
                   /\ req'[r].status = 404
                   /\ UNCHANGED <<threads, emails, sentEmails>>]_vars

\* C19: normalizing a subject that is already normalized returns it
\* unchanged: the second of two successive calls returns what the first did.
C19_NormalizeIdempotent ==
    Len(normalizations) = MaxCalls =>
       normalizations[MaxCalls] = normalizations[MaxCalls - 1]

C19_Witness ==
    /\ givenSubject = CountedSubject
    /\ normalizations = <<<<"h","i">>, <<"h","i">>>>

\* C20: extractMessageIds returns the ids of the References value and then
\* those of the In-Reply-To value, in the order met and each once, at its
\* first occurrence; References '<a> <b> <a>' with In-Reply-To '<b>' yields
\* [<a>, <b>], and a map without the two headers yields the empty list.
HeaderOf(name, Name) ==
    IF name \in DOMAIN givenHeaders /\ givenHeaders[name] # <<>> THEN givenHeaders[name]
    ELSE IF Name \in DOMAIN givenHeaders THEN givenHeaders[Name]
    ELSE <<>>

Met == MatchIds(HeaderOf("references", "References"))
          \o MatchIds(HeaderOf("in-reply-to", "In-Reply-To"))

FirstAt(list, id) == CHOOSE k \in 1..Len(list) : list[k] = id /\ \A j \in 1..(k - 1) : list[j] # id

ExampleHeaders == References(Join(<<IdA, IdB, IdA>>)) @@ InReplyTo(IdB)

C20_IdsInOrderOnce ==
    extracted # <<>> =>
       LET ids == extracted[1]
       IN  /\ {ids[k] : k \in 1..Len(ids)} = {Met[k] : k \in 1..Len(Met)}
           /\ \A i, j \in 1..Len(ids) :
                 i < j => FirstAt(Met, ids[i]) < FirstAt(Met, ids[j])
           /\ givenHeaders = ExampleHeaders => ids = <<IdA, IdB>>
           /\ DOMAIN givenHeaders \cap {"references", "References",
                                         "in-reply-to", "In-Reply-To"} = {} => ids = <<>>

C20_Witness ==
    /\ givenHeaders = ExampleHeaders
    /\ extracted = <<<<IdA, IdB>>>>

\* C21: two header maps that differ only in the letter case of the names of
\* their References and In-Reply-To headers yield the same list of ids.
C21_HeaderNamesCaseInsensitive ==
    Len(extracted) = 2 => extracted[2] = extracted[1]

\* C22: when an ingestion writes the counters of a Thread after another
\* ingestion that resolved to the same Thread and read the same counters has
\* already written its own, the write leaves messageCount and unreadCount
\* one above the counters both have read, not two: one increment is lost.
\* The witness is the state after both have completed, with both Message
\* rows referencing the Thread.
RacedPair(r, q) ==
    /\ r # q
    /\ req[r].kind = "webhook" /\ req[q].kind = "webhook"
    /\ req[r].status = 200 /\ req[q].status = 200
    /\ req[r].threadId = req[q].threadId
    /\ req[r].snap # NoThread
    /\ req[r].snap.messageCount = req[q].snap.messageCount
    /\ req[r].snap.unreadCount = req[q].snap.unreadCount

RowsOf(threadId) == {k \in 1..Len(emails) : emails[k].threadId = threadId}

\* r has written the counters it read; q, which read the same, writes now.
SecondWrite(r, q) ==
    /\ r # q
    /\ req[r].kind = "webhook" /\ req[q].kind = "webhook"
    /\ req[r].pc \in {"insert", "done"}
    /\ req[r].snap # NoThread
    /\ req[q].pc = "updWrite" /\ req'[q].pc = "insert"
    /\ req[r].threadId = req[q].threadId
    /\ req[r].snap.messageCount = req[q].snap.messageCount
    /\ req[r].snap.unreadCount = req[q].snap.unreadCount

C22_RaceLosesIncrement ==
    [][\A r, q \in Reqs :
          SecondWrite(r, q) =>
             /\ threads'[req[q].threadId].messageCount = req[q].snap.messageCount + 1
             /\ threads'[req[q].threadId].unreadCount = req[q].snap.unreadCount + 1]_vars

C22_Witness ==
    \E r, q \in Reqs :
       /\ RacedPair(r, q)
       /\ threads[req[r].threadId].messageCount = req[r].snap.messageCount + 1
       /\ threads[req[r].threadId].unreadCount = req[r].snap.unreadCount + 1
       /\ Cardinality(RowsOf(req[r].threadId)) = req[r].snap.messageCount + 2

\* C23: every delivery of an authenticated payload to an existing Mailbox
\* stores a Message row and is counted in a Thread, whether or not a row with
\* the same external identifier is already stored: when no request is being
\* served there are as many rows as deliveries and the Threads count as many
\* messages.
RECURSIVE CountedMessages(_)
CountedMessages(t) ==
    IF t = 0 THEN 0 ELSE threads[t].messageCount + CountedMessages(t - 1)

C23_RedeliveryStoredAgain ==
    InFlight = {} =>
       /\ Len(emails) = started
       /\ CountedMessages(Len(threads)) = started

C23_Witness ==
    /\ InFlight = {}
    /\ \E i, j \in 1..Len(emails) :
          /\ i < j
          /\ emails[i].messageId = emails[j].messageId
          /\ emails[i].inboxId = emails[j].inboxId
          /\ emails[i].threadId = emails[j].threadId
          /\ threads[emails[j].threadId].messageCount = 2

\* C24: when the UPDATE of recalculateUnread(T) is the step that ends all
\* activity (no ingestion, view or send is being served after it), the
\* unreadCount of T is the number of unread received Messages of T.
C24_RecalculatedUnreadIsExact ==
    [][\A r \in Reqs :
          ( /\ req[r].pc = "recalcWrite"
            /\ req'[r].pc = "done"
            /\ InFlight = {r} )
          => threads'[req[r].threadId].unreadCount
                = Cardinality({k \in 1..Len(emails') :
                                  /\ emails'[k].threadId = req[r].threadId
                                  /\ ~emails'[k].isRead})]_vars

\* C25: a message whose normalized subject is empty and that matches no
\* Thread by reference resolves to no Thread, whatever Threads the Mailbox
\* holds.
C25_EmptySubjectNeverMatches ==
    [][\A r \in Reqs :
          ( /\ req[r].pc = "find"
            /\ req'[r].pc = "stamp"
            /\ normalizeSubject(req[r].p.subject) = <<>>
            /\ MatchByReferences(req[r].inboxId, extractMessageIds(req[r].p.headers)) = Null )
          => req'[r].threadId = Null]_vars

C25_Witness ==
    \E r \in Reqs :
       /\ req[r].pc = "create"
       /\ req[r].threadId = Null
       /\ req[r].p.subject = OnlyPrefixes
       /\ \E t \in 1..Len(threads) :
             /\ threads[t].inboxId = req[r].inboxId
             /\ threads[t].normalizedSubject = <<>>
             /\ threads[t].latestMessageAt >= req[r].cutoff

\* C26: a handle that has subscribed, whose unsubscribe closure has not been
\* called and whose controller has always accepted writes is registered
\* under its mailbox.
C26_OthersStayRegistered ==
    \A c \in Conns :
       ( /\ ctrl[c] = "open"
         /\ hooks[c] = {} )
       => c \in Range(SubsOf(subscribers, members, subInbox[c]))

\* C27: when the insert of the Message row fails, the Thread state is what
\* it was before the payload arrived: the request has created no Thread, and
\* the Thread it resolved to still holds the row the request read.
C27_FailedInsertLeavesNoTrace ==
    [][\A r \in Reqs :
          ( /\ req[r].pc = "insert"
            /\ req'[r].pc = "done"
            /\ req'[r].status = 500 )
          => IF req[r].snap = NoThread
             THEN req[r].threadId \notin 1..Len(threads')
             ELSE threads'[req[r].threadId] = req[r].snap]_vars

\* C28: every Message row and every Sent Message row that references a
\* Thread carries the inbox of that Thread.
C28_SameMailboxAsThread ==
    /\ \A k \in 1..Len(emails) :
          emails[k].threadId # Null
          => threads[emails[k].threadId].inboxId = emails[k].inboxId
    /\ \A k \in 1..Len(sentEmails) :
          sentEmails[k].threadId # Null
          => threads[sentEmails[k].threadId].inboxId = sentEmails[k].inboxId

\* C29: once two Messages with the same non-empty normalized subject and no
\* references have been ingested into a Mailbox that had no Thread, whether
\* one after the other or concurrently, both rows reference one Thread and
\* that Thread counts two Messages.
C29_SameSubjectSameThread ==
    ( /\ InFlight = {}
      /\ Len(emails) = 2
      /\ emails[1].inboxId = emails[2].inboxId
      /\ extractMessageIds(emails[1].rawHeaders) = <<>>
      /\ extractMessageIds(emails[2].rawHeaders) = <<>>
      /\ normalizeSubject(emails[1].subject) # <<>>
      /\ normalizeSubject(emails[1].subject) = normalizeSubject(emails[2].subject) )
    => /\ emails[1].threadId = emails[2].threadId
       /\ threads[emails[1].threadId].messageCount = 2

\* C30: the client never has two of its three activities at once: a
\* streaming channel that is connecting or open, a pending reconnect timer,
\* a polling timer; and it has at most one channel and one reconnect timer.
C30_AtMostOneActivity ==
    /\ Cardinality(Live) <= 1
    /\ Cardinality(pendingTimeouts) <= 1
    /\ ~(Live # {} /\ pendingTimeouts # {})
    /\ ~(Live # {} /\ fallbackIntervalRef)
    /\ ~(pendingTimeouts # {} /\ fallbackIntervalRef)

\* The client has gone from the last reconnect timer to polling.
C30_Witness ==
    /\ mounted
    /\ retryCountRef = MAX_RETRIES
    /\ fallbackIntervalRef
    /\ Live = {}
    /\ pendingTimeouts = {}

====
